---- MODULE Spec2Model ----
(***************************************************************************)
(* The memory-mapped circular buffer of src/ipc/circular_buffer.cpp        *)
(* (class MemoryMappedCircularBuffer, src/include/circular_buffer.h).      *)
(*                                                                         *)
(* The backing file and the MAP_SHARED mapping of it are one object: the   *)
(* variables file_exists, file_len, hdr and slots are the bytes of the     *)
(* file, read and written through the mapping while an instance is open.   *)
(* The variables fd .. is_initialized are the private members of one       *)
(* instance.  call records the operation that was just performed, its      *)
(* arguments, what it returned and what it observed on entry; prev keeps   *)
(* the name and the result of the operation before that one.               *)
(***************************************************************************)
EXTENDS Integers, Sequences, FiniteSets, TLC

(***************************************************************************)
(* Layout constants.                                                       *)
(***************************************************************************)
BUFFER_STAGES == 10

\* 1024 in the source; the slots of the model are SLOT_SIZE bytes long.
SLOT_SIZE == 2

\* sizeof(CircularBufferHeader): five 32-bit fields and 44 bytes of padding.
HEADER_SIZE == 64

TOTAL_BUFFER_SIZE == BUFFER_STAGES * SLOT_SIZE + HEADER_SIZE

\* A uint32_t is kept as its two 16-bit halves <<high, low>>, so that the
\* counters keep their 32-bit width.  0xBEEFCAFE is <<0xBEEF, 0xCAFE>>.
MAGIC_NUMBER == <<48879, 51966>>

U32(n) == <<n \div 65536, n % 65536>>

\* x++ that stays at 2^32 - 1
Inc32Saturating(x) ==
    IF x = <<65535, 65535>> THEN x
    ELSE IF x[2] = 65535 THEN <<x[1] + 1, 0>> ELSE <<x[1], x[2] + 1>>

\* x++ on a uint32_t
Inc32(x) == IF x[2] = 65535 THEN <<(x[1] + 1) % 65536, 0>> ELSE <<x[1], x[2] + 1>>

(***************************************************************************)
(* Bounds of the exploration.                                              *)
(***************************************************************************)
\* write_slot and advance_write_pointer are called while total_writes is
\* below MaxWrites.
MaxWrites == 11

\* advance_write_pointer is called while total_writes is below MaxDirect.
MaxDirect == 1

\* create_buffer_file is called while total_writes is at most MaxDirty.
MaxDirty == 1

VARIABLES file_exists, file_len, hdr, slots,
          fd, mapped_memory, header, buffer_data, file_size, is_initialized,
          open_fds, mappings,
          call, prev, proc, disk

fileVars == <<file_exists, file_len, hdr, slots>>

\* the members of the instance and what the process holds through them:
\* open_fds is the set of descriptors that open() returned and close() has
\* not released, mappings the set of lengths of the mappings that mmap()
\* made and munmap() has not released
instVars == <<fd, mapped_memory, header, buffer_data, file_size, is_initialized,
              open_fds, mappings>>
vars == <<file_exists, file_len, hdr, slots,
          fd, mapped_memory, header, buffer_data, file_size, is_initialized,
          open_fds, mappings,
          call, prev, proc, disk>>

(***************************************************************************)
(* Bytes and byte arrays.                                                  *)
(***************************************************************************)
Min(a, b) == IF a < b THEN a ELSE b

\* memset(dst, c, n)
memset(dst, c, n) == [i \in 1..Len(dst) |-> IF i <= n THEN c ELSE dst[i]]

\* memcpy(dst, src, n)
memcpy(dst, src, n) == [i \in 1..Len(dst) |-> IF i <= n THEN src[i] ELSE dst[i]]

ZeroSlot == [i \in 1..SLOT_SIZE |-> 0]

ZeroSlots == [s \in 0..(BUFFER_STAGES - 1) |-> ZeroSlot]

\* CircularBufferHeader header = {0}
ZeroHeader == [write_index |-> 0, read_index |-> 0,
               total_writes |-> U32(0), total_reads |-> U32(0),
               magic_number |-> U32(0)]

\* the header create_buffer_file writes and reset() leaves
FreshHeader == [ZeroHeader EXCEPT !.magic_number = MAGIC_NUMBER]

(***************************************************************************)
(* The callers' buffers.                                                   *)
(***************************************************************************)
\* what an output buffer holds before the callee stores into it
JUNK == 170

\* *bytes_read before the callee stores into it
Untouched == -1

NullPtr == -1

\* an output buffer of n bytes
OutBuffer(n) == [i \in 1..n |-> JUNK]

\* the k-th record of the producer: SLOT_SIZE + 1 bytes, each equal to k
Record(k) == [i \in 1..(SLOT_SIZE + 1) |-> k]

(***************************************************************************)
(* The file as one value, and the queries of the instance.                 *)
(***************************************************************************)
File == [exists |-> file_exists, len |-> file_len, hdr |-> hdr, slots |-> slots]

SetFile(F) ==
    /\ file_exists' = F.exists
    /\ file_len' = F.len
    /\ hdr' = F.hdr
    /\ slots' = F.slots

\* has_data() that is true of every open buffer
has_data_always == is_initialized

\* has_data() that compares the counters
has_data_by_counters ==
    IF ~is_initialized THEN FALSE ELSE hdr.total_reads # hdr.total_writes

\* bool has_data()
has_data == IF ~is_initialized THEN FALSE ELSE hdr.read_index # hdr.write_index

\* is_full() without the modulo
is_full_no_wrap ==
    IF ~is_initialized THEN FALSE
    ELSE (hdr.write_index + 1) = hdr.read_index

\* is_full() that takes equal indices for a full ring
is_full_when_equal ==
    IF ~is_initialized THEN FALSE
    ELSE hdr.write_index = hdr.read_index

\* bool is_full()
is_full ==
    IF ~is_initialized THEN FALSE
    ELSE ((hdr.write_index + 1) % BUFFER_STAGES) = hdr.read_index

\* (index + 1) % BUFFER_STAGES
NextIndex(i) == (i + 1) % BUFFER_STAGES

\* the copy without the memset before it
StoreSlotNoClear(slot, data, data_size) == memcpy(slot, data, data_size)

\* a memset of data_size bytes instead of SLOT_SIZE
StoreSlotShortClear(slot, data, data_size) ==
    memcpy(memset(slot, 0, data_size), data, data_size)

\* memset(write_ptr, 0, SLOT_SIZE); memcpy(write_ptr, data, data_size)
StoreSlot(slot, data, data_size) == memcpy(memset(slot, 0, SLOT_SIZE), data, data_size)

\* std::min(max_size, static_cast<size_t>(SLOT_SIZE))
CopySize(max_size) == Min(max_size, SLOT_SIZE)

(***************************************************************************)
(* Processes and the backing store.  proc holds, for each process that     *)
(* runs an operation statement by statement, the position in the operation *)
(* and its local values; disk holds the bytes that msync has written back. *)
(* Where the operations are taken as single steps there is no such process *)
(* and the backing store is not followed.                                  *)
(***************************************************************************)
NoProcs == <<>>

NoDisk == [hdr |-> ZeroHeader, slots |-> ZeroSlots]

(***************************************************************************)
(* The record of a call.                                                   *)
(***************************************************************************)
\* the members of the instance as one value
Inst == [fd |-> fd, mapped_memory |-> mapped_memory, header |-> header,
         buffer_data |-> buffer_data, file_size |-> file_size,
         is_initialized |-> is_initialized]

\* the state a call is entered in
Pre == [file |-> File, inst |-> Inst]

NoPre == [file |-> [exists |-> FALSE, len |-> 0, hdr |-> ZeroHeader,
                    slots |-> ZeroSlots],
          inst |-> [fd |-> -1, mapped_memory |-> "MAP_FAILED", header |-> "nullptr",
                    buffer_data |-> "nullptr", file_size |-> 0,
                    is_initialized |-> FALSE]]

NoCall == [op |-> "none", ret |-> "void", null |-> FALSE, data |-> <<>>,
           size |-> 0, want |-> FALSE, out |-> <<>>, bytes_read |-> Untouched,
           ptr |-> NullPtr, stats |-> <<>>, pre |-> NoPre]

Bool(b) == IF b THEN "true" ELSE "false"

\* the record of a call of op that returns ret, made in the current state
R(op, ret) == [NoCall EXCEPT !.op = op, !.ret = ret, !.pre = Pre]

\* the calls prev remembers, when they did not fail
Tracked == {"write_slot", "peek_slot", "cleanup", "create_buffer_file",
            "direct_store"}

NoPrev == [op |-> "other", ret |-> "void", data |-> <<>>, size |-> 0, empty |-> FALSE]

Returns(c) ==
    /\ call' = c
    /\ prev' = IF call.op \in Tracked /\ call.ret # "false"
               THEN [op |-> call.op, ret |-> call.ret, data |-> call.data,
                     size |-> call.size,
                     empty |-> (call.pre.file.hdr.read_index
                                    = call.pre.file.hdr.write_index)]
               ELSE NoPrev
    /\ UNCHANGED <<proc, disk>>

\* a call that changes nothing and returns what c says
Fails(c) ==
    /\ UNCHANGED fileVars
    /\ UNCHANGED instVars
    /\ Returns(c)

(***************************************************************************)
(* static bool create_buffer_file(const char* filename)                    *)
(***************************************************************************)
CreateFaults == {"none", "open", "ftruncate", "write"}

\* ftruncate(fd, n) on a file of at most n bytes: the new bytes read as zero
ftruncate(F, n) == [F EXCEPT !.len = n]

\* the initial header without header.magic_number = MAGIC_NUMBER
InitialHeaderNoMagic == ZeroHeader

\* the header create_buffer_file writes at offset 0
InitialHeader == FreshHeader

\* the file create_buffer_file leaves and what it returns, when the system
\* call named by fault fails
CreateFile(F, fault) ==
    IF fault = "open" THEN [ok |-> FALSE, file |-> F]
    ELSE LET opened == [F EXCEPT !.exists = TRUE]
         IN  IF fault = "ftruncate" THEN [ok |-> FALSE, file |-> opened]
             ELSE LET sized == ftruncate(opened, TOTAL_BUFFER_SIZE)
                  IN  IF fault = "write" THEN [ok |-> FALSE, file |-> sized]
                      ELSE [ok |-> TRUE,
                            file |-> [sized EXCEPT !.hdr = InitialHeader]]

create_buffer_file(fault) ==
    LET c == CreateFile(File, fault)
    IN  /\ SetFile(c.file)
        /\ UNCHANGED instVars
        /\ Returns(R("create_buffer_file", Bool(c.ok)))

(***************************************************************************)
(* void reset()                                                            *)
(***************************************************************************)
\* reset() without the test of is_initialized
ResetFileUnguarded(init, F) == [F EXCEPT !.hdr = FreshHeader, !.slots = ZeroSlots]

\* reset() without the memset of the slots
ResetFileKeepSlots(init, F) ==
    IF ~init THEN F
    ELSE [F EXCEPT !.hdr = FreshHeader]

\* the file reset() leaves when the instance's flag is init
ResetFile(init, F) ==
    IF ~init THEN F
    ELSE [F EXCEPT !.hdr = FreshHeader, !.slots = ZeroSlots]

reset ==
    /\ SetFile(ResetFile(is_initialized, File))
    /\ UNCHANGED instVars
    /\ Returns(R("reset", "void"))

(***************************************************************************)
(* bool initialize(const char* filename)                                   *)
(***************************************************************************)
\* The system call that fails, if any.  "open": the path can be neither
\* opened nor created, so the open of create_buffer_file fails as well;
\* "reopen": the open after create_buffer_file fails.
InitFaults == {"none", "open", "create_ftruncate", "create_write", "reopen",
               "fstat", "ftruncate", "mmap"}

\* the fault of create_buffer_file when initialize runs under fault
CreateFaultOf(fault) ==
    CASE fault = "open" -> "open"
      [] fault = "create_ftruncate" -> "ftruncate"
      [] fault = "create_write" -> "write"
      [] OTHER -> "none"

\* an extension that writes a new header as well
ExtendFileNewHeader(F) ==
    IF F.len < TOTAL_BUFFER_SIZE
    THEN [ftruncate(F, TOTAL_BUFFER_SIZE) EXCEPT !.hdr = FreshHeader]
    ELSE F

\* if (file_size < TOTAL_BUFFER_SIZE) ftruncate(fd, TOTAL_BUFFER_SIZE)
ExtendFile(F) ==
    IF F.len < TOTAL_BUFFER_SIZE THEN ftruncate(F, TOTAL_BUFFER_SIZE) ELSE F

\* an initialize that clears the buffer whatever the magic
VerifyMagicAlways(init, F) == [F EXCEPT !.hdr = FreshHeader, !.slots = ZeroSlots]

\* if (header->magic_number != MAGIC_NUMBER) reset();
\* is_initialized is still false at this point.
VerifyMagic(init, F) ==
    IF F.hdr.magic_number # MAGIC_NUMBER THEN ResetFile(init, F) ELSE F

\* the instance after a failed initialize that had stored size in file_size:
\* open() has failed, or close(fd) has released the descriptor it returned
Failed(F, size) ==
    /\ SetFile(F)
    /\ fd' = -1
    /\ file_size' = size
    /\ UNCHANGED <<mapped_memory, header, buffer_data, is_initialized>>
    /\ UNCHANGED <<open_fds, mappings>>

\* an initialize that does not look at is_initialized
AlreadyInitializedIgnored == FALSE

\* if (is_initialized) { ...; return false; }
AlreadyInitialized == is_initialized

initialize(fault) ==
    IF AlreadyInitialized
    THEN Fails(R("initialize", "false"))
    ELSE LET missing == ~file_exists \/ fault = "open"
             c == IF missing THEN CreateFile(File, CreateFaultOf(fault))
                  ELSE [ok |-> TRUE, file |-> File]
             F1 == c.file
         IN  IF ~c.ok \/ (missing /\ fault = "reopen") \/ fault = "fstat"
             THEN /\ Failed(F1, file_size)
                  /\ Returns(R("initialize", "false"))
             ELSE IF F1.len < TOTAL_BUFFER_SIZE /\ fault = "ftruncate"
             THEN /\ Failed(F1, F1.len)
                  /\ Returns(R("initialize", "false"))
             ELSE LET F2 == ExtendFile(F1)
                  IN  IF fault = "mmap"
                      THEN /\ Failed(F2, F2.len)
                           /\ Returns(R("initialize", "false"))
                      ELSE /\ SetFile(VerifyMagic(is_initialized, F2))
                           /\ fd' = 3
                           /\ open_fds' = open_fds \cup {3}
                           /\ file_size' = F2.len
                           /\ mappings' = mappings \cup {F2.len}
                           /\ mapped_memory' = "mapped"
                           /\ header' = "mapped"
                           /\ buffer_data' = "mapped"
                           /\ is_initialized' = TRUE
                           /\ Returns(R("initialize", "true"))

(***************************************************************************)
(* void cleanup()                                                          *)
(***************************************************************************)
\* cleanup() that forgets the descriptor without close(fd)
cleanup_without_close ==
    /\ UNCHANGED fileVars
    /\ mappings' = IF mapped_memory # "MAP_FAILED" THEN mappings \ {file_size}
                   ELSE mappings
    /\ mapped_memory' = "MAP_FAILED"
    /\ UNCHANGED open_fds
    /\ fd' = -1
    /\ header' = "nullptr"
    /\ buffer_data' = "nullptr"
    /\ file_size' = 0
    /\ is_initialized' = FALSE
    /\ Returns(R("cleanup", "void"))

cleanup ==
    /\ UNCHANGED fileVars
    /\ mappings' = IF mapped_memory # "MAP_FAILED" THEN mappings \ {file_size}
                   ELSE mappings
    /\ mapped_memory' = "MAP_FAILED"
    /\ open_fds' = IF fd # -1 THEN open_fds \ {fd} ELSE open_fds
    /\ fd' = -1
    /\ header' = "nullptr"
    /\ buffer_data' = "nullptr"
    /\ file_size' = 0
    /\ is_initialized' = FALSE
    /\ Returns(R("cleanup", "void"))

(***************************************************************************)
(* bool write_slot(const void* data, size_t data_size)                     *)
(* null: data is a null pointer; otherwise data is the caller's buffer.    *)
(***************************************************************************)
WriteCall(null, data, data_size) ==
    [R("write_slot", "false") EXCEPT !.null = null, !.data = data, !.size = data_size]

\* a write that drops the oldest record of a full ring
DoWriteDropOldest(c, data, data_size) ==
    /\ slots' = [slots EXCEPT ![hdr.write_index] = StoreSlot(@, data, data_size)]
    /\ hdr' = [hdr EXCEPT !.write_index = NextIndex(@),
                          !.total_writes = Inc32(@),
                          !.read_index = IF is_full THEN NextIndex(@) ELSE @]
    /\ UNCHANGED <<file_exists, file_len>>
    /\ UNCHANGED instVars
    /\ Returns([c EXCEPT !.ret = "true"])

\* clear the slot at write_index, copy, advance, count
DoWrite(c, data, data_size) ==
    /\ slots' = [slots EXCEPT ![hdr.write_index] = StoreSlot(@, data, data_size)]
    /\ hdr' = [hdr EXCEPT !.write_index = NextIndex(@),
                          !.total_writes = Inc32(@)]
    /\ UNCHANGED <<file_exists, file_len>>
    /\ UNCHANGED instVars
    /\ Returns([c EXCEPT !.ret = "true"])

\* write_slot that refuses to write into a full ring
write_slot_reject_full(null, data, data_size) ==
    IF ~is_initialized \/ null \/ data_size > SLOT_SIZE \/ is_full
    THEN Fails(WriteCall(null, data, data_size))
    ELSE DoWrite(WriteCall(null, data, data_size), data, data_size)

\* write_slot that clears the slot before it looks at data_size
write_slot_clear_first(null, data, data_size) ==
    IF ~is_initialized \/ null
    THEN Fails(WriteCall(null, data, data_size))
    ELSE IF data_size > SLOT_SIZE
    THEN /\ slots' = [slots EXCEPT ![hdr.write_index] = memset(@, 0, SLOT_SIZE)]
         /\ UNCHANGED <<file_exists, file_len, hdr>>
         /\ UNCHANGED instVars
         /\ Returns(WriteCall(null, data, data_size))
    ELSE DoWrite(WriteCall(null, data, data_size), data, data_size)

write_slot(null, data, data_size) ==
    IF ~is_initialized \/ null
    THEN Fails(WriteCall(null, data, data_size))
    ELSE IF data_size > SLOT_SIZE
    THEN Fails(WriteCall(null, data, data_size))
    ELSE DoWrite(WriteCall(null, data, data_size), data, data_size)

(***************************************************************************)
(* bool read_slot(void* data, size_t max_size, size_t* bytes_read)         *)
(* bool peek_slot(void* data, size_t max_size, size_t* bytes_read)         *)
(* null: data is a null pointer; otherwise data is a buffer of max_size    *)
(* bytes.  want: bytes_read is not a null pointer.                         *)
(***************************************************************************)
ReadCall(op, null, max_size, want) ==
    [R(op, "false") EXCEPT !.null = null, !.size = max_size, !.want = want,
                           !.out = IF null THEN <<>> ELSE OutBuffer(max_size)]

\* if (bytes_read) *bytes_read = n
StoreBytesRead(c, n) == [c EXCEPT !.bytes_read = IF c.want THEN n ELSE @]

\* memcpy(data, read_ptr, copy_size); if (bytes_read) *bytes_read = copy_size
Copied(c) ==
    LET copy_size == CopySize(c.size)
    IN  [StoreBytesRead(c, copy_size) EXCEPT
            !.ret = "true",
            !.out = memcpy(@, slots[hdr.read_index], copy_size)]

\* a read that takes the newest record
DoReadNewest(c) ==
    /\ hdr' = [hdr EXCEPT !.read_index = NextIndex(@),
                          !.total_reads = Inc32(@)]
    /\ UNCHANGED <<file_exists, file_len, slots>>
    /\ UNCHANGED instVars
    /\ Returns([Copied(c) EXCEPT
                   !.out = memcpy(@, slots[(hdr.write_index + BUFFER_STAGES - 1)
                                               % BUFFER_STAGES],
                                  CopySize(c.size))])

\* copy the slot at read_index, advance, count
DoRead(c) ==
    /\ hdr' = [hdr EXCEPT !.read_index = NextIndex(@),
                          !.total_reads = Inc32(@)]
    /\ UNCHANGED <<file_exists, file_len, slots>>
    /\ UNCHANGED instVars
    /\ Returns(Copied(c))

\* read_slot without the test of has_data()
read_slot_unchecked_empty(null, max_size, want) ==
    IF ~is_initialized \/ null
    THEN Fails(ReadCall("read_slot", null, max_size, want))
    ELSE DoRead(ReadCall("read_slot", null, max_size, want))

\* read_slot that leaves read_index and total_reads alone
read_slot_not_advancing(null, max_size, want) ==
    IF ~is_initialized \/ null
    THEN Fails(ReadCall("read_slot", null, max_size, want))
    ELSE IF ~has_data
    THEN Fails(StoreBytesRead(ReadCall("read_slot", null, max_size, want), 0))
    ELSE Fails(Copied(ReadCall("read_slot", null, max_size, want)))

read_slot(null, max_size, want) ==
    IF ~is_initialized \/ null
    THEN Fails(ReadCall("read_slot", null, max_size, want))
    ELSE IF ~has_data
    THEN Fails(StoreBytesRead(ReadCall("read_slot", null, max_size, want), 0))
    ELSE DoRead(ReadCall("read_slot", null, max_size, want))

\* peek_slot that copies from buffer_data, without the offset of the slot
peek_slot_first_slot(null, max_size, want) ==
    IF ~is_initialized \/ null
    THEN Fails(ReadCall("peek_slot", null, max_size, want))
    ELSE IF ~has_data
    THEN Fails(StoreBytesRead(ReadCall("peek_slot", null, max_size, want), 0))
    ELSE LET c == ReadCall("peek_slot", null, max_size, want)
         IN  Fails([StoreBytesRead(c, CopySize(max_size)) EXCEPT
                       !.ret = "true",
                       !.out = memcpy(@, slots[0], CopySize(max_size))])

\* peek_slot that consumes the record
peek_slot_advancing(null, max_size, want) ==
    IF ~is_initialized \/ null
    THEN Fails(ReadCall("peek_slot", null, max_size, want))
    ELSE IF ~has_data
    THEN Fails(StoreBytesRead(ReadCall("peek_slot", null, max_size, want), 0))
    ELSE DoRead(ReadCall("peek_slot", null, max_size, want))

peek_slot(null, max_size, want) ==
    IF ~is_initialized \/ null
    THEN Fails(ReadCall("peek_slot", null, max_size, want))
    ELSE IF ~has_data
    THEN Fails(StoreBytesRead(ReadCall("peek_slot", null, max_size, want), 0))
    ELSE Fails(Copied(ReadCall("peek_slot", null, max_size, want)))

(***************************************************************************)
(* void* get_write_slot_ptr() / const void* get_read_slot_ptr()            *)
(* The pointer returned is given as the number of the slot it points to.   *)
(***************************************************************************)
\* get_write_slot_ptr that clears the slot it hands out
get_write_slot_ptr_clearing ==
    IF ~is_initialized THEN Fails(R("get_write_slot_ptr", "nullptr"))
    ELSE /\ slots' = [slots EXCEPT ![hdr.write_index] = ZeroSlot]
         /\ UNCHANGED <<file_exists, file_len, hdr>>
         /\ UNCHANGED instVars
         /\ Returns([R("get_write_slot_ptr", "ptr") EXCEPT !.ptr = hdr.write_index])

get_write_slot_ptr ==
    Fails(IF ~is_initialized THEN R("get_write_slot_ptr", "nullptr")
          ELSE [R("get_write_slot_ptr", "ptr") EXCEPT !.ptr = hdr.write_index])

\* get_read_slot_ptr that answers with the slot at write_index
get_read_slot_ptr_at_write ==
    Fails(IF ~is_initialized \/ ~has_data THEN R("get_read_slot_ptr", "nullptr")
          ELSE [R("get_read_slot_ptr", "ptr") EXCEPT !.ptr = hdr.write_index])

get_read_slot_ptr ==
    Fails(IF ~is_initialized \/ ~has_data THEN R("get_read_slot_ptr", "nullptr")
          ELSE [R("get_read_slot_ptr", "ptr") EXCEPT !.ptr = hdr.read_index])

(***************************************************************************)
(* void advance_write_pointer() / void advance_read_pointer()              *)
(***************************************************************************)
\* advance_write_pointer without total_writes++
advance_write_no_count ==
    /\ IF ~is_initialized
       THEN UNCHANGED fileVars
       ELSE /\ hdr' = [hdr EXCEPT !.write_index = NextIndex(@)]
            /\ UNCHANGED <<file_exists, file_len, slots>>
    /\ UNCHANGED instVars
    /\ Returns(R("advance_write_pointer", "void"))

advance_write_pointer ==
    /\ IF ~is_initialized
       THEN UNCHANGED fileVars
       ELSE /\ hdr' = [hdr EXCEPT !.write_index = NextIndex(@),
                                  !.total_writes = Inc32(@)]
            /\ UNCHANGED <<file_exists, file_len, slots>>
    /\ UNCHANGED instVars
    /\ Returns(R("advance_write_pointer", "void"))

\* advance_read_pointer without total_reads++
advance_read_no_count ==
    /\ IF ~is_initialized \/ ~has_data
       THEN UNCHANGED fileVars
       ELSE /\ hdr' = [hdr EXCEPT !.read_index = NextIndex(@)]
            /\ UNCHANGED <<file_exists, file_len, slots>>
    /\ UNCHANGED instVars
    /\ Returns(R("advance_read_pointer", "void"))

\* advance_read_pointer without the test of has_data()
advance_read_unchecked ==
    /\ IF ~is_initialized
       THEN UNCHANGED fileVars
       ELSE /\ hdr' = [hdr EXCEPT !.read_index = NextIndex(@),
                                  !.total_reads = Inc32(@)]
            /\ UNCHANGED <<file_exists, file_len, slots>>
    /\ UNCHANGED instVars
    /\ Returns(R("advance_read_pointer", "void"))

advance_read_pointer ==
    /\ IF ~is_initialized \/ ~has_data
       THEN UNCHANGED fileVars
       ELSE /\ hdr' = [hdr EXCEPT !.read_index = NextIndex(@),
                                  !.total_reads = Inc32(@)]
            /\ UNCHANGED <<file_exists, file_len, slots>>
    /\ UNCHANGED instVars
    /\ Returns(R("advance_read_pointer", "void"))

(***************************************************************************)
(* void get_stats(...), bool has_data(), bool is_full()                    *)
(* given: the four pointers of get_stats are not null.                     *)
(***************************************************************************)
get_stats(given) ==
    Fails(IF ~is_initialized \/ ~given THEN R("get_stats", "void")
          ELSE [R("get_stats", "void") EXCEPT
                   !.stats = <<hdr.write_index, hdr.read_index,
                               hdr.total_writes, hdr.total_reads>>])

has_data_call == Fails(R("has_data", Bool(has_data)))

is_full_call == Fails(R("is_full", Bool(is_full)))

(***************************************************************************)
(* Out of band: the magic field of the closed file is zeroed.              *)
(***************************************************************************)
zero_magic ==
    /\ ~is_initialized
    /\ file_exists
    /\ file_len >= HEADER_SIZE
    /\ hdr' = [hdr EXCEPT !.magic_number = U32(0)]
    /\ UNCHANGED <<file_exists, file_len, slots>>
    /\ UNCHANGED instVars
    /\ Returns(R("zero_magic", "void"))

(***************************************************************************)
(* The program: one instance, constructed, and no file.                    *)
(***************************************************************************)
Init ==
    /\ file_exists = FALSE
    /\ file_len = 0
    /\ hdr = ZeroHeader
    /\ slots = ZeroSlots
    /\ fd = -1
    /\ mapped_memory = "MAP_FAILED"
    /\ header = "nullptr"
    /\ buffer_data = "nullptr"
    /\ file_size = 0
    /\ is_initialized = FALSE
    /\ open_fds = {}
    /\ mappings = {}
    /\ call = NoCall
    /\ prev = NoPrev
    /\ proc = NoProcs
    /\ disk = NoDisk

\* the number of the record the producer writes next
NextRecord == hdr.total_writes[2] + 1

\* the length of the k-th record: SLOT_SIZE, SLOT_SIZE - 1, .., 0, SLOT_SIZE, ..
SizeOf(k) == (SLOT_SIZE * k) % (SLOT_SIZE + 1)

\* the arguments write_slot is called with: the next record, the next record
\* with a size above SLOT_SIZE, and a null pointer
WriteArgs ==
    {[null |-> FALSE, size |-> SizeOf(NextRecord)],
     [null |-> FALSE, size |-> SLOT_SIZE + 1],
     [null |-> TRUE, size |-> SizeOf(NextRecord)]}

\* the arguments read_slot and peek_slot are called with
ReadArgs ==
    {[null |-> FALSE, size |-> n, want |-> TRUE] : n \in 0..(SLOT_SIZE + 1)}
    \cup {[null |-> TRUE, size |-> SLOT_SIZE, want |-> TRUE],
          [null |-> FALSE, size |-> SLOT_SIZE, want |-> FALSE]}

WriteBelowBound == hdr.total_writes[1] = 0 /\ hdr.total_writes[2] < MaxWrites

DirectBelowBound == hdr.total_writes[1] = 0 /\ hdr.total_writes[2] < MaxDirect

CreateBelowBound == hdr.total_writes[1] = 0 /\ hdr.total_writes[2] <= MaxDirty

Next ==
    \/ \E fault \in CreateFaults :
          /\ CreateBelowBound
          /\ create_buffer_file(fault)
    \/ \E fault \in InitFaults : initialize(fault)
    \/ \E a \in WriteArgs :
          /\ WriteBelowBound
          /\ write_slot(a.null, Record(NextRecord), a.size)
    \/ \E a \in ReadArgs : read_slot(a.null, a.size, a.want)
    \/ \E a \in ReadArgs : peek_slot(a.null, a.size, a.want)
    \/ get_write_slot_ptr
    \/ get_read_slot_ptr
    \/ (DirectBelowBound /\ advance_write_pointer)
    \/ advance_read_pointer
    \/ \E given \in BOOLEAN : get_stats(given)
    \/ has_data_call
    \/ is_full_call
    \/ reset
    \/ cleanup
    \/ zero_magic

Spec == Init /\ [][Next]_vars

(***************************************************************************)
(* The program given a file it did not write: initialize opens whatever    *)
(* file is at the path and takes its first 64 bytes for the header.        *)
(***************************************************************************)
\* the largest index a file not written by the program holds
MaxForeignIndex == 12

ForeignIndices == {0, BUFFER_STAGES - 1, BUFFER_STAGES, MaxForeignIndex}

\* the counters of such a file: total_writes and total_reads
ForeignCounters == {<<U32(0), U32(0)>>, <<U32(65536 + 7), U32(3)>>}

ForeignHeaders ==
    {[write_index |-> w, read_index |-> r,
      total_writes |-> c[1], total_reads |-> c[2], magic_number |-> m] :
        w \in ForeignIndices, r \in ForeignIndices, c \in ForeignCounters,
        m \in {MAGIC_NUMBER, U32(0)}}

\* a file of the header alone, a file of the header and one slot and a file
\* of the full length
ForeignLens == {HEADER_SIZE, HEADER_SIZE + SLOT_SIZE, TOTAL_BUFFER_SIZE}

\* the slots of a file of len bytes: the bytes the file holds are not zero
ForeignSlots(len) ==
    [s \in 0..(BUFFER_STAGES - 1) |->
        IF HEADER_SIZE + (s + 1) * SLOT_SIZE <= len
        THEN [i \in 1..SLOT_SIZE |-> JUNK] ELSE ZeroSlot]

InitForeign ==
    /\ file_exists = TRUE
    /\ file_len \in ForeignLens
    /\ hdr \in ForeignHeaders
    /\ slots = ForeignSlots(file_len)
    /\ fd = -1
    /\ mapped_memory = "MAP_FAILED"
    /\ header = "nullptr"
    /\ buffer_data = "nullptr"
    /\ file_size = 0
    /\ is_initialized = FALSE
    /\ open_fds = {}
    /\ mappings = {}
    /\ call = NoCall
    /\ prev = NoPrev
    /\ proc = NoProcs
    /\ disk = NoDisk

ReadBelowBound == hdr.total_reads[1] = 0 /\ hdr.total_reads[2] < MaxWrites

\* the operations that touch the header only
NextForeign ==
    \/ \E fault \in InitFaults : initialize(fault)
    \/ (DirectBelowBound /\ advance_write_pointer)
    \/ (ReadBelowBound /\ advance_read_pointer)
    \/ \E given \in BOOLEAN : get_stats(given)
    \/ has_data_call
    \/ is_full_call
    \/ reset
    \/ cleanup

SpecForeign == InitForeign /\ [][NextForeign]_vars

(***************************************************************************)
(* The program on a buffer that is open and in use: the file after n       *)
(* write_slot calls and m read_slot calls on a fresh buffer.               *)
(***************************************************************************)
\* the file write_slot(data, data_size) leaves
Written(F, data, data_size) ==
    [F EXCEPT !.slots[F.hdr.write_index] = StoreSlot(@, data, data_size),
              !.hdr.write_index = NextIndex(@),
              !.hdr.total_writes = Inc32(@)]

\* the file read_slot leaves
Consumed(F) ==
    [F EXCEPT !.hdr.read_index = NextIndex(@), !.hdr.total_reads = Inc32(@)]

FreshFile ==
    [exists |-> TRUE, len |-> TOTAL_BUFFER_SIZE, hdr |-> InitialHeader,
     slots |-> ZeroSlots]

RECURSIVE AfterWrites(_)
AfterWrites(n) ==
    IF n = 0 THEN FreshFile
    ELSE Written(AfterWrites(n - 1), Record(n), SizeOf(n))

RECURSIVE AfterReads(_, _)
AfterReads(F, m) == IF m = 0 THEN F ELSE Consumed(AfterReads(F, m - 1))

\* the number of read_slot calls that can follow n write_slot calls
ReadsAfter(n) ==
    (AfterWrites(n).hdr.write_index + BUFFER_STAGES) % BUFFER_STAGES

Ring(n, m) == AfterReads(AfterWrites(n), m)

\* the file F and the members of an instance that initialize has opened on it
HandleOn(F) ==
    /\ file_exists = F.exists
    /\ file_len = F.len
    /\ hdr = F.hdr
    /\ slots = F.slots
    /\ fd = 3
    /\ mapped_memory = "mapped"
    /\ header = "mapped"
    /\ buffer_data = "mapped"
    /\ file_size = F.len
    /\ is_initialized = TRUE
    /\ open_fds = {3}
    /\ mappings = {F.len}

\* an instance that initialize has opened on file F, and nothing called yet
OpenOn(F) ==
    /\ HandleOn(F)
    /\ call = NoCall
    /\ prev = NoPrev
    /\ proc = NoProcs
    /\ disk = NoDisk

(***************************************************************************)
(* The consumer loop of the test: while (buffer.has_data()) read_slot.     *)
(***************************************************************************)
InitDrain ==
    \E n \in 0..MaxWrites : \E m \in 0..ReadsAfter(n) : OpenOn(Ring(n, m))

drain == has_data /\ read_slot(FALSE, SLOT_SIZE, TRUE)

SpecDrain == InitDrain /\ [][drain]_vars /\ WF_vars(drain)

(***************************************************************************)
(* Direct access: the caller stores through the pointer that               *)
(* get_write_slot_ptr returned and calls advance_write_pointer.            *)
(***************************************************************************)
\* the number of write_slot calls before the direct accesses begin
DirectStart == BUFFER_STAGES - 1

\* the number of writes, direct or not, that follow
MaxDirectOps == 2

InitDirect == \E m \in 0..ReadsAfter(DirectStart) : OpenOn(Ring(DirectStart, m))

\* memcpy(write_ptr, &direct_data, sizeof(direct_data))
direct_store(data, data_size) ==
    /\ call.op = "get_write_slot_ptr"
    /\ call.ret = "ptr"
    /\ slots' = [slots EXCEPT ![call.ptr] = memcpy(@, data, data_size)]
    /\ UNCHANGED <<file_exists, file_len, hdr>>
    /\ UNCHANGED instVars
    /\ Returns([R("direct_store", "void") EXCEPT
                   !.data = data, !.size = data_size, !.ptr = call.ptr])

DirectOpsBelowBound ==
    hdr.total_writes[1] = 0 /\ hdr.total_writes[2] < DirectStart + MaxDirectOps

NextDirect ==
    \/ get_write_slot_ptr
    \/ direct_store(Record(NextRecord), SLOT_SIZE)
    \/ (DirectOpsBelowBound /\ advance_write_pointer)
    \/ get_read_slot_ptr
    \/ advance_read_pointer
    \/ (DirectOpsBelowBound /\ write_slot(FALSE, Record(NextRecord), SizeOf(NextRecord)))
    \/ read_slot(FALSE, SLOT_SIZE, TRUE)
    \/ has_data_call
    \/ cleanup

SpecDirect == InitDirect /\ [][NextDirect]_vars

(***************************************************************************)
(* The operations statement by statement, for processes that have the same *)
(* file mapped.  Each process has its own instance, open on the file; the  *)
(* members of the instances are equal and are kept in the variables fd ..  *)
(* is_initialized.  A load or a store of a header field, the memset of a   *)
(* slot, the memcpy into a slot and the copy of one byte out of a slot are *)
(* the steps.                                                              *)
(***************************************************************************)
\* mmap(nullptr, file_size, PROT_READ | PROT_WRITE, MAP_SHARED, fd, 0)
MapFlags == "MAP_SHARED"

Procs == {"A", "B"}

\* the number of calls the processes make together
MaxRaceCalls == 4

NoPriv == [dirty |-> FALSE, hdr |-> ZeroHeader, slots |-> ZeroSlots]

\* a process that has called nothing; n records were written and got
\* records were read before
Local0(n, got) ==
    [pc |-> "idle", last |-> "none", ret |-> "none", ptr |-> 0, idx |-> 0,
     cnt |-> U32(0), data |-> <<>>, size |-> 0, out |-> <<>>, i |-> 0,
     bytes_read |-> Untouched, stats |-> <<>>, calls |-> 0, n |-> n,
     got |-> got, priv |-> NoPriv]

\* what process p finds in its mapping
View(p) ==
    IF MapFlags = "MAP_SHARED" \/ ~proc[p].priv.dirty
    THEN [hdr |-> hdr, slots |-> slots]
    ELSE [hdr |-> proc[p].priv.hdr, slots |-> proc[p].priv.slots]

Frame ==
    UNCHANGED <<file_exists, file_len, fd, mapped_memory, header, buffer_data,
                file_size, is_initialized, open_fds, mappings, call, prev>>

\* process p stores header h and slots sl through its mapping and goes on
\* as loc
Store(p, loc, h, sl) ==
    /\ IF MapFlags = "MAP_SHARED"
       THEN /\ hdr' = h
            /\ slots' = sl
            /\ proc' = [proc EXCEPT ![p] = loc]
       ELSE /\ UNCHANGED <<hdr, slots>>
            /\ proc' = [proc EXCEPT ![p] =
                           [loc EXCEPT !.priv = [dirty |-> TRUE, hdr |-> h,
                                                 slots |-> sl]]]
    /\ UNCHANGED disk
    /\ Frame

\* process p goes on as loc and stores nothing
Local(p, loc) ==
    /\ proc' = [proc EXCEPT ![p] = loc]
    /\ UNCHANGED <<hdr, slots, disk>>
    /\ Frame

\* msync(mapped_memory, sizeof(CircularBufferHeader), MS_SYNC): the header
\* is on the backing store when the call returns
MsyncHeader(p, loc) ==
    /\ proc' = [proc EXCEPT ![p] = loc]
    /\ disk' = IF MapFlags = "MAP_SHARED" THEN [disk EXCEPT !.hdr = hdr] ELSE disk
    /\ UNCHANGED <<hdr, slots>>
    /\ Frame

\* the return of a call
Return(l, op, ret) ==
    [l EXCEPT !.pc = "idle", !.last = op, !.ret = ret, !.idx = 0,
              !.cnt = U32(0), !.i = 0]

CallsMade == proc["A"].calls + proc["B"].calls

CanCall(p) == proc[p].pc = "idle" /\ CallsMade < MaxRaceCalls

\* write_slot(data, data_size), data not null
write_slot_enter(p, data, data_size) ==
    /\ CanCall(p)
    /\ LET l == [proc[p] EXCEPT !.data = data, !.size = data_size,
                                !.calls = @ + 1]
       IN  IF ~is_initialized \/ data_size > SLOT_SIZE
           THEN Local(p, Return(l, "write_slot", "false"))
           ELSE Local(p, [l EXCEPT !.pc = "write_memset", !.i = 1,
                                   !.ptr = View(p).hdr.write_index])

\* memset(write_ptr, 0, SLOT_SIZE), one byte
write_slot_memset(p) ==
    /\ proc[p].pc = "write_memset"
    /\ LET l == proc[p]
           next == IF l.i < SLOT_SIZE THEN [l EXCEPT !.i = @ + 1]
                   ELSE IF l.size = 0 THEN [l EXCEPT !.pc = "write_load_index", !.i = 0]
                   ELSE [l EXCEPT !.pc = "write_memcpy", !.i = 1]
       IN  Store(p, next, View(p).hdr,
                 [View(p).slots EXCEPT ![l.ptr][l.i] = 0])

\* memcpy(write_ptr, data, data_size), one byte
write_slot_memcpy(p) ==
    /\ proc[p].pc = "write_memcpy"
    /\ LET l == proc[p]
           next == IF l.i < l.size THEN [l EXCEPT !.i = @ + 1]
                   ELSE [l EXCEPT !.pc = "write_load_index", !.i = 0]
       IN  Store(p, next, View(p).hdr,
                 [View(p).slots EXCEPT ![l.ptr][l.i] = l.data[l.i]])

\* header->write_index is read for the increment: the value in memory, or
\* the value read for write_ptr if the compiler has kept it
write_slot_load_index(p) ==
    /\ proc[p].pc = "write_load_index"
    /\ \E v \in {View(p).hdr.write_index, proc[p].ptr} :
          Local(p, [proc[p] EXCEPT !.pc = "write_store_index", !.idx = v])

write_slot_store_index(p) ==
    /\ proc[p].pc = "write_store_index"
    /\ Store(p, [proc[p] EXCEPT !.pc = "write_load_count"],
             [View(p).hdr EXCEPT !.write_index = NextIndex(proc[p].idx)],
             View(p).slots)

write_slot_load_count(p) ==
    /\ proc[p].pc = "write_load_count"
    /\ Local(p, [proc[p] EXCEPT !.pc = "write_store_count",
                                !.cnt = View(p).hdr.total_writes])

write_slot_store_count_twice(p) ==
    /\ proc[p].pc = "write_store_count"
    /\ Store(p, [proc[p] EXCEPT !.pc = "write_msync"],
             [View(p).hdr EXCEPT !.total_writes = Inc32(Inc32(proc[p].cnt))],
             View(p).slots)

write_slot_store_count(p) ==
    /\ proc[p].pc = "write_store_count"
    /\ Store(p, [proc[p] EXCEPT !.pc = "write_msync"],
             [View(p).hdr EXCEPT !.total_writes = Inc32(proc[p].cnt)],
             View(p).slots)

write_slot_msync(p) ==
    /\ proc[p].pc = "write_msync"
    /\ MsyncHeader(p, [Return(proc[p], "write_slot", "true") EXCEPT !.n = @ + 1])

write_slot_steps(p, data, data_size) ==
    \/ write_slot_enter(p, data, data_size)
    \/ write_slot_memset(p)
    \/ write_slot_memcpy(p)
    \/ write_slot_load_index(p)
    \/ write_slot_store_index(p)
    \/ write_slot_load_count(p)
    \/ write_slot_store_count(p)
    \/ write_slot_msync(p)

\* header->read_index != header->write_index, in the mapping of process p
has_data_in(p) == View(p).hdr.read_index # View(p).hdr.write_index

\* read_slot / peek_slot that copy the slot after the one at read_index
copy_slot_enter_next(p, op, max_size) ==
    /\ CanCall(p)
    /\ LET l == [proc[p] EXCEPT !.calls = @ + 1, !.size = max_size]
       IN  IF ~is_initialized
           THEN Local(p, Return(l, op, "false"))
           ELSE IF ~has_data_in(p)
           THEN Local(p, [Return(l, op, "false") EXCEPT !.bytes_read = 0])
           ELSE Local(p, [l EXCEPT !.pc = op, !.i = 1,
                                   !.out = OutBuffer(max_size),
                                   !.bytes_read = Untouched,
                                   !.ptr = NextIndex(View(p).hdr.read_index)])

\* read_slot(data, max_size, &bytes_read) and peek_slot(data, max_size,
\* &bytes_read), data not null and max_size at least 1: up to read_ptr
copy_slot_enter(p, op, max_size) ==
    /\ CanCall(p)
    /\ LET l == [proc[p] EXCEPT !.calls = @ + 1, !.size = max_size]
       IN  IF ~is_initialized
           THEN Local(p, Return(l, op, "false"))
           ELSE IF ~has_data_in(p)
           THEN Local(p, [Return(l, op, "false") EXCEPT !.bytes_read = 0])
           ELSE Local(p, [l EXCEPT !.pc = op, !.i = 1,
                                   !.out = OutBuffer(max_size),
                                   !.bytes_read = Untouched,
                                   !.ptr = View(p).hdr.read_index])

\* memcpy(data, read_ptr, copy_size), one byte; after the last byte
\* *bytes_read = copy_size, and peek_slot returns true
copy_slot_memcpy(p) ==
    /\ proc[p].pc \in {"read_slot", "peek_slot"}
    /\ LET l == proc[p]
           copy_size == Min(l.size, SLOT_SIZE)
           got == [l EXCEPT !.out[l.i] = View(p).slots[l.ptr][l.i]]
       IN  Local(p, IF l.i < copy_size THEN [got EXCEPT !.i = @ + 1]
                    ELSE IF l.pc = "peek_slot"
                    THEN [Return(got, "peek_slot", "true") EXCEPT
                             !.bytes_read = copy_size]
                    ELSE [got EXCEPT !.pc = "read_load_index", !.i = 0,
                                     !.bytes_read = copy_size])

\* header->read_index is read for the increment: the value in memory, or
\* the value read for read_ptr if the compiler has kept it
read_slot_load_index(p) ==
    /\ proc[p].pc = "read_load_index"
    /\ \E v \in {View(p).hdr.read_index, proc[p].ptr} :
          Local(p, [proc[p] EXCEPT !.pc = "read_store_index", !.idx = v])

read_slot_store_index(p) ==
    /\ proc[p].pc = "read_store_index"
    /\ Store(p, [proc[p] EXCEPT !.pc = "read_load_count"],
             [View(p).hdr EXCEPT !.read_index = NextIndex(proc[p].idx)],
             View(p).slots)

read_slot_load_count(p) ==
    /\ proc[p].pc = "read_load_count"
    /\ Local(p, [proc[p] EXCEPT !.pc = "read_store_count",
                                !.cnt = View(p).hdr.total_reads])

read_slot_store_count(p) ==
    /\ proc[p].pc = "read_store_count"
    /\ Store(p, [proc[p] EXCEPT !.pc = "read_msync"],
             [View(p).hdr EXCEPT !.total_reads = Inc32(proc[p].cnt)],
             View(p).slots)

read_slot_msync(p) ==
    /\ proc[p].pc = "read_msync"
    /\ MsyncHeader(p, [Return(proc[p], "read_slot", "true") EXCEPT !.got = @ + 1])

read_slot_steps(p, max_size) ==
    \/ copy_slot_enter(p, "read_slot", max_size)
    \/ copy_slot_memcpy(p)
    \/ read_slot_load_index(p)
    \/ read_slot_store_index(p)
    \/ read_slot_load_count(p)
    \/ read_slot_store_count(p)
    \/ read_slot_msync(p)

\* has_data()
has_data_query(p) ==
    /\ CanCall(p)
    /\ Local(p, Return([proc[p] EXCEPT !.calls = @ + 1], "has_data",
                       IF is_initialized /\ has_data_in(p) THEN "true" ELSE "false"))

\* is_full() that never finds the ring full
is_full_query_never(p) ==
    /\ CanCall(p)
    /\ Local(p, Return([proc[p] EXCEPT !.calls = @ + 1], "is_full", "false"))

\* is_full()
is_full_query(p) ==
    /\ CanCall(p)
    /\ Local(p, Return([proc[p] EXCEPT !.calls = @ + 1], "is_full",
                       IF /\ is_initialized
                          /\ NextIndex(View(p).hdr.write_index) = View(p).hdr.read_index
                       THEN "true" ELSE "false"))

\* get_stats(&write_idx, &read_idx, &total_writes, &total_reads): the two
\* indices are read
get_stats_indices(p) ==
    /\ CanCall(p)
    /\ LET l == [proc[p] EXCEPT !.calls = @ + 1]
       IN  IF ~is_initialized
           THEN Local(p, [Return(l, "get_stats", "void") EXCEPT !.stats = <<>>])
           ELSE Local(p, [l EXCEPT !.pc = "get_stats",
                                   !.stats = <<View(p).hdr.write_index,
                                               View(p).hdr.read_index>>])

\* the two counters are read
get_stats_counters(p) ==
    /\ proc[p].pc = "get_stats"
    /\ Local(p, [Return(proc[p], "get_stats", "void") EXCEPT
                    !.stats = @ \o <<View(p).hdr.total_writes,
                                     View(p).hdr.total_reads>>])

\* the bytes a process writes: the first process numbers its records as
\* a single writer does, the second one from 100
Mark(p) == IF p = "A" THEN 0 ELSE 100

Payload(p) == Record(Mark(p) + proc[p].n + 1)

OnDisk(F) == [hdr |-> F.hdr, slots |-> F.slots]

\* two processes have the fresh file open and both write
InitTwoWriters ==
    /\ HandleOn(FreshFile)
    /\ call = NoCall
    /\ prev = NoPrev
    /\ proc = [p \in Procs |-> Local0(0, 0)]
    /\ disk = OnDisk(FreshFile)

NextTwoWriters == \E p \in Procs : write_slot_steps(p, Payload(p), SLOT_SIZE)

SpecTwoWriters == InitTwoWriters /\ [][NextTwoWriters]_vars

\* the producer has written Filled records before the consumer starts: the
\* ring is empty, or it is full
Filled == {0, BUFFER_STAGES - 1}

InitWriterReader ==
    \E n \in Filled :
        /\ HandleOn(Ring(n, 0))
        /\ call = NoCall
        /\ prev = NoPrev
        /\ proc = [p \in Procs |-> IF p = "A" THEN Local0(n, 0) ELSE Local0(0, 0)]
        /\ disk = OnDisk(Ring(n, 0))

\* process A produces and asks for the fill level, process B consumes
NextWriterReader ==
    \/ write_slot_steps("A", Payload("A"), SizeOf(proc["A"].n + 1))
    \/ is_full_query("A")
    \/ get_stats_indices("A")
    \/ get_stats_counters("A")
    \/ has_data_query("B")
    \/ read_slot_steps("B", SLOT_SIZE)
    \/ copy_slot_enter("B", "peek_slot", SLOT_SIZE)

SpecWriterReader == InitWriterReader /\ [][NextWriterReader]_vars

(***************************************************************************)
(* The backing store.  msync writes back the range it is given: the header *)
(* in write_slot, read_slot and the advance calls, the whole mapping in    *)
(* reset.  Of what was stored outside that range nothing says when it      *)
(* reaches the file, so a crash right after a call keeps or loses each     *)
(* slot that differs from the backing store.                               *)
(***************************************************************************)
\* process p stores header h and slots sl, calls msync on the header or on
\* the whole mapping, and returns
StoreSync(p, loc, h, sl, whole) ==
    /\ hdr' = h
    /\ slots' = sl
    /\ disk' = IF whole THEN [hdr |-> h, slots |-> sl] ELSE [disk EXCEPT !.hdr = h]
    /\ proc' = [proc EXCEPT ![p] = loc]
    /\ Frame

\* advance_write_pointer()
advance_write_pointer_in(p) ==
    /\ CanCall(p)
    /\ LET l == Return([proc[p] EXCEPT !.calls = @ + 1], "advance_write_pointer", "void")
       IN  IF ~is_initialized THEN Local(p, l)
           ELSE StoreSync(p, [l EXCEPT !.n = @ + 1],
                          [hdr EXCEPT !.write_index = NextIndex(@),
                                      !.total_writes = Inc32(@)],
                          slots, FALSE)

\* advance_read_pointer()
advance_read_pointer_in(p) ==
    /\ CanCall(p)
    /\ LET l == Return([proc[p] EXCEPT !.calls = @ + 1], "advance_read_pointer", "void")
       IN  IF ~is_initialized \/ ~has_data_in(p) THEN Local(p, l)
           ELSE StoreSync(p, [l EXCEPT !.got = @ + 1],
                          [hdr EXCEPT !.read_index = NextIndex(@),
                                      !.total_reads = Inc32(@)],
                          slots, FALSE)

\* reset()
reset_in(p) ==
    /\ CanCall(p)
    /\ LET l == Return([proc[p] EXCEPT !.calls = @ + 1], "reset", "void")
       IN  IF ~is_initialized THEN Local(p, l)
           ELSE StoreSync(p, [l EXCEPT !.n = 0, !.got = 0], FreshHeader,
                          ZeroSlots, TRUE)

Mutating == {"write_slot", "read_slot", "advance_write_pointer",
             "advance_read_pointer", "reset"}

\* the slots that were stored to and not written back
Unflushed == {s \in 0..(BUFFER_STAGES - 1) : slots[s] # disk.slots[s]}

\* process p dies right after a mutating call has returned, and the file is
\* opened again: the header was written back, each unflushed slot is kept
\* or lost
crash(p) ==
    /\ proc[p].pc = "idle"
    /\ proc[p].last \in Mutating
    /\ proc[p].ret \in {"true", "void"}
    /\ \E lost \in SUBSET Unflushed :
          slots' = [s \in 0..(BUFFER_STAGES - 1) |->
                       IF s \in lost THEN disk.slots[s] ELSE slots[s]]
    /\ hdr' = disk.hdr
    /\ proc' = [proc EXCEPT ![p] = [Local0(proc[p].n, proc[p].got) EXCEPT
                                       !.last = "crash",
                                       !.calls = proc[p].calls]]
    /\ UNCHANGED disk
    /\ Frame

InitCrash ==
    \E n \in Filled :
        /\ HandleOn(Ring(n, 0))
        /\ call = NoCall
        /\ prev = NoPrev
        /\ proc = [p \in Procs |-> IF p = "A" THEN Local0(n, 0) ELSE Local0(0, 0)]
        /\ disk = OnDisk(Ring(n, 0))

NextCrash ==
    \/ write_slot_steps("A", Payload("A"), SizeOf(proc["A"].n + 1))
    \/ read_slot_steps("A", SLOT_SIZE)
    \/ advance_write_pointer_in("A")
    \/ advance_read_pointer_in("A")
    \/ reset_in("A")
    \/ crash("A")

SpecCrash == InitCrash /\ [][NextCrash]_vars

(***************************************************************************)
(* The counters at the end of their range.  After 2^32 - BUFFER_STAGES     *)
(* records written and read the ring is empty and the counters are         *)
(* BUFFER_STAGES increments from 0.                                        *)
(***************************************************************************)
\* x modulo BUFFER_STAGES, x a uint32_t
Index32(x) ==
    ((x[1] % BUFFER_STAGES) * (65536 % BUFFER_STAGES) + (x[2] % BUFFER_STAGES))
        % BUFFER_STAGES

\* 2^32 - BUFFER_STAGES
NearWrap == <<65535, 65536 - BUFFER_STAGES>>

\* write_slot and advance_write_pointer are called until total_writes has
\* wrapped and reached MaxWrapped
MaxWrapped == 2

\* the file after NearWrap records were written and read
WornFile ==
    [FreshFile EXCEPT
        !.hdr = [FreshHeader EXCEPT !.write_index = Index32(NearWrap),
                                    !.read_index = Index32(NearWrap),
                                    !.total_writes = NearWrap,
                                    !.total_reads = NearWrap],
        !.slots = [s \in 0..(BUFFER_STAGES - 1) |->
                      StoreSlot(ZeroSlot, Record(JUNK), SLOT_SIZE)]]

InitWrap == OpenOn(WornFile)

WrapBelowBound == hdr.total_writes[1] = 65535 \/ hdr.total_writes[2] < MaxWrapped

\* the advance calls are made where the counter is about to wrap
AtWrap(x) == x = <<65535, 65535>>

NextWrap ==
    \/ (WrapBelowBound /\ write_slot(FALSE, Record(NextRecord), SizeOf(NextRecord)))
    \/ read_slot(FALSE, SLOT_SIZE, TRUE)
    \/ (AtWrap(hdr.total_writes) /\ advance_write_pointer)
    \/ (AtWrap(hdr.total_reads) /\ advance_read_pointer)
    \/ get_write_slot_ptr
    \/ get_read_slot_ptr
    \/ has_data_call
    \/ is_full_call

SpecWrap == InitWrap /\ [][NextWrap]_vars

(***************************************************************************)
(* buffer_dump: the tool that prints a buffer file.  It is a process of    *)
(* its own that reads the file through a stream; proc holds its position   *)
(* and locals under the name D.                                            *)
(***************************************************************************)
\* size_t bytes_to_dump = 64, in proportion to the slot
DefaultBytesToDump == (SLOT_SIZE + 1) \div 2

\* -n is not on the command line
NoRequest == -1

\* what follows -n on the command line
Requests == {NoRequest} \cup (0..(SLOT_SIZE + 1))

\* the byte at offset i of the file, i at or past the header
FileByte(i) ==
    slots[(i - HEADER_SIZE) \div SLOT_SIZE][((i - HEADER_SIZE) % SLOT_SIZE) + 1]

\* the number of bytes file.read(buffer, n) gets at offset
Available(offset, n) ==
    IF file_len - offset < 0 THEN 0 ELSE Min(n, file_len - offset)

\* the bytes file.read(buffer, n) gets at offset
StreamRead(offset, n) ==
    [k \in 1..Available(offset, n) |-> FileByte(offset + k - 1)]

Tool0 == [pc |-> "main", request |-> NoRequest, bytes_to_dump |-> DefaultBytesToDump, slot |-> 0,
          good |-> FALSE, printed |-> FALSE, header |-> ZeroHeader,
          warned |-> FALSE,
          dumped |-> <<>>, status |-> -1]

Tool == proc["D"]

\* the tool goes on as t; it stores nothing
ToolStep(t) ==
    /\ proc' = [proc EXCEPT !["D"] = t]
    /\ UNCHANGED <<hdr, slots, disk>>
    /\ Frame

Exit(t, status) == [t EXCEPT !.pc = "exit", !.status = status, !.good = FALSE]

\* the command line is read and the file is opened
dump_main(request) ==
    /\ Tool.pc = "main"
    /\ LET n == IF request = NoRequest THEN DefaultBytesToDump
                ELSE IF request > SLOT_SIZE THEN SLOT_SIZE ELSE request
           t == [Tool EXCEPT !.request = request, !.bytes_to_dump = n]
       IN  IF ~file_exists THEN ToolStep(Exit(t, 1))
           ELSE ToolStep([t EXCEPT !.pc = "header", !.good = TRUE])

\* file.read(&header, sizeof(header)); printHeader(header)
dump_read_header ==
    /\ Tool.pc = "header"
    /\ IF file_len < HEADER_SIZE THEN ToolStep(Exit(Tool, 1))
       ELSE ToolStep([Tool EXCEPT !.pc = "magic", !.printed = TRUE,
                                !.header = hdr])

\* a tool that stops at a magic that is not 0xBEEFCAFE
dump_verify_magic_or_stop ==
    /\ Tool.pc = "magic"
    /\ IF Tool.header.magic_number # MAGIC_NUMBER
       THEN ToolStep(Exit([Tool EXCEPT !.warned = TRUE], 1))
       ELSE ToolStep([Tool EXCEPT !.pc = "seek"])

\* if (header.magic_number != 0xBEEFCAFE) a warning is printed
dump_verify_magic ==
    /\ Tool.pc = "magic"
    /\ ToolStep([Tool EXCEPT !.pc = "seek",
                             !.warned = (Tool.header.magic_number # MAGIC_NUMBER)])

\* for (slot ...): file.seekg(slot_offset) does nothing on a stream that has
\* failed; after the last slot the tool returns 0
dump_seek ==
    /\ Tool.pc = "seek"
    /\ IF Tool.slot >= BUFFER_STAGES \/ ~Tool.good THEN ToolStep(Exit(Tool, 0))
       ELSE ToolStep([Tool EXCEPT !.pc = "read"])

\* file.read(buffer, bytes_to_dump); the bytes that were read are printed,
\* or "<empty or EOF>" when there are none
dump_read ==
    /\ Tool.pc = "read"
    /\ LET offset == HEADER_SIZE + Tool.slot * SLOT_SIZE
           got == StreamRead(offset, Tool.bytes_to_dump)
       IN  ToolStep([Tool EXCEPT !.pc = "seek", !.slot = @ + 1,
                                 !.good = (Len(got) = Tool.bytes_to_dump),
                                 !.dumped = Append(@, got)])

\* the files the tool is given: the file after 3 writes and 1 read, whole or
\* cut short, with the magic or without it, and no file
DumpLens == {HEADER_SIZE - 1, HEADER_SIZE, HEADER_SIZE + SLOT_SIZE + 1,
             TOTAL_BUFFER_SIZE}

\* the first len bytes of file F
CutAt(F, len) ==
    [F EXCEPT !.len = len,
              !.slots = [s \in 0..(BUFFER_STAGES - 1) |->
                            [i \in 1..SLOT_SIZE |->
                                IF HEADER_SIZE + s * SLOT_SIZE + i <= len
                                THEN F.slots[s][i] ELSE 0]]]

DumpFiles ==
    {CutAt([Ring(n, 1) EXCEPT !.hdr.magic_number = m], len) :
        n \in {3, BUFFER_STAGES + 2}, m \in {MAGIC_NUMBER, U32(0)},
        len \in DumpLens}
    \cup {NoPre.file}

InitDump ==
    \E F \in DumpFiles :
        /\ file_exists = F.exists
        /\ file_len = F.len
        /\ hdr = F.hdr
        /\ slots = F.slots
        /\ fd = -1
        /\ mapped_memory = "MAP_FAILED"
        /\ header = "nullptr"
        /\ buffer_data = "nullptr"
        /\ file_size = 0
        /\ is_initialized = FALSE
        /\ open_fds = {}
        /\ mappings = {}
        /\ call = NoCall
        /\ prev = NoPrev
        /\ proc = [p \in {"D"} |-> Tool0]
        /\ disk = NoDisk

NextDump ==
    \/ \E request \in Requests : dump_main(request)
    \/ dump_read_header
    \/ dump_verify_magic
    \/ dump_seek
    \/ dump_read

SpecDump == InitDump /\ [][NextDump]_vars

(***************************************************************************)
(* The full ring: 9 records written and none read, and the same after one  *)
(* more turn of the ring (19 records written, the tenth write having       *)
(* emptied it).                                                            *)
(***************************************************************************)
\* write_slot and advance_write_pointer are called while total_writes is
\* below 2 * BUFFER_STAGES + MaxOverflow
MaxOverflow == 1

FullAfter == {BUFFER_STAGES - 1, 2 * BUFFER_STAGES - 1}

InitOverflow == \E n \in FullAfter : OpenOn(Ring(n, 0))

OverflowBelowBound ==
    /\ hdr.total_writes[1] = 0
    /\ hdr.total_writes[2] < 2 * BUFFER_STAGES + MaxOverflow

NextOverflow ==
    \/ (OverflowBelowBound /\ write_slot(FALSE, Record(NextRecord), SizeOf(NextRecord)))
    \/ (OverflowBelowBound /\ is_full /\ advance_write_pointer)
    \/ read_slot(FALSE, SLOT_SIZE, TRUE)
    \/ has_data_call
    \/ is_full_call

SpecOverflow == InitOverflow /\ [][NextOverflow]_vars

(***************************************************************************)
(* A producer that asks is_full() before it writes: write_slot is called   *)
(* on a ring that is not full only.  The buffer is fresh and open.         *)
(***************************************************************************)
InitFifo == OpenOn(FreshFile)

NextFifo ==
    \/ /\ WriteBelowBound
       /\ ~is_full
       /\ write_slot(FALSE, Record(NextRecord), SizeOf(NextRecord))
    \/ read_slot(FALSE, SLOT_SIZE, TRUE)
    \/ is_full_call

SpecFifo == InitFifo /\ [][NextFifo]_vars

(***************************************************************************)
(* A producer that calls write_slot only after is_full() has returned      *)
(* false, and a consumer, on the same file.                                *)
(***************************************************************************)
\* the records written before the two run: none, one less than a full
\* ring, a full ring
GuardedFilled == {0, BUFFER_STAGES - 2, BUFFER_STAGES - 1}

InitGuarded ==
    \E n \in GuardedFilled :
        /\ HandleOn(Ring(n, 0))
        /\ call = NoCall
        /\ prev = NoPrev
        /\ proc = [p \in Procs |-> IF p = "A" THEN Local0(n, 0) ELSE Local0(0, 0)]
        /\ disk = OnDisk(Ring(n, 0))

NextGuarded ==
    \/ is_full_query("A")
    \/ /\ proc["A"].last = "is_full"
       /\ proc["A"].ret = "false"
       /\ write_slot_enter("A", Payload("A"), SizeOf(proc["A"].n + 1))
    \/ write_slot_memset("A")
    \/ write_slot_memcpy("A")
    \/ write_slot_load_index("A")
    \/ write_slot_store_index("A")
    \/ write_slot_load_count("A")
    \/ write_slot_store_count("A")
    \/ write_slot_msync("A")
    \/ read_slot_steps("B", SLOT_SIZE)

SpecGuarded == InitGuarded /\ [][NextGuarded]_vars

(***************************************************************************)
(* What the properties speak of.                                           *)
(***************************************************************************)
\* the header, the slots and the flag of the instance on entry of the call
PreHdr == call.pre.file.hdr
PreSlots == call.pre.file.slots
PreOpen == call.pre.inst.is_initialized

\* y is x + 1 modulo 2^32
Succ32(x, y) ==
    \/ x[2] < 65535 /\ y = <<x[1], x[2] + 1>>
    \/ x[2] = 65535 /\ y = <<(x[1] + 1) % 65536, 0>>

\* the first n bytes of data, followed by zeros up to the size of a slot
Padded(data, n) == [i \in 1..SLOT_SIZE |-> IF i <= n THEN data[i] ELSE 0]

\* the number of records between read_index and write_index
UnreadCount(h) == (h.write_index - h.read_index + BUFFER_STAGES) % BUFFER_STAGES

\* the records a consumer reads next, oldest first
Unread(h, sl) ==
    [k \in 1..UnreadCount(h) |-> sl[(h.read_index + k - 1) % BUFFER_STAGES]]

\* the number of read_slot calls that succeed on header h, one after the
\* other, before has_data() is false; at most n are tried
RECURSIVE Drain(_, _)
Drain(h, n) ==
    IF n = 0 \/ h.read_index = h.write_index THEN 0
    ELSE 1 + Drain([h EXCEPT !.read_index = NextIndex(@)], n - 1)

Readable(h) == Drain(h, BUFFER_STAGES + 1)

\* the ring of header h is full
FullRing(h) == (h.write_index + 1) % BUFFER_STAGES = h.read_index

(***************************************************************************)
(* C1.  Corruption recovery: a successful initialize of an existing file   *)
(* whose magic is not 0xBEEFCAFE leaves the fresh-empty state: indices and *)
(* counters zero, magic stamped, every slot byte zero, has_data() false.   *)
(* The code calls reset() before it sets is_initialized, and reset()       *)
(* returns at once while is_initialized is false: the property fails.      *)
(***************************************************************************)
C1_CorruptionRecovery ==
    (/\ call.op = "initialize"
     /\ call.ret = "true"
     /\ call.pre.file.exists
     /\ PreHdr.magic_number # MAGIC_NUMBER)
    => (/\ hdr = [write_index |-> 0, read_index |-> 0,
                  total_writes |-> U32(0), total_reads |-> U32(0),
                  magic_number |-> MAGIC_NUMBER]
        /\ \A s \in 0..(BUFFER_STAGES - 1) : \A i \in 1..SLOT_SIZE : slots[s][i] = 0
        /\ ~has_data)

(***************************************************************************)
(* C2.  Drop-oldest: a successful write_slot into a full ring loses        *)
(* exactly the oldest unread record; the newer unread records and the new  *)
(* record are what read_slot returns next.  The code leaves read_index     *)
(* alone, so write_index meets it and nothing is readable: the property    *)
(* fails.                                                                  *)
(***************************************************************************)
C2_DropOldest ==
    (/\ call.op = "write_slot"
     /\ call.ret = "true"
     /\ FullRing(PreHdr))
    => Unread(hdr, slots)
           = Tail(Unread(PreHdr, PreSlots)) \o <<Padded(call.data, call.size)>>

(***************************************************************************)
(* C3.  Capacity: an open buffer with BUFFER_STAGES - 1 writes and no read *)
(* since it was fresh is full and has data; the next write_slot succeeds   *)
(* and wraps write_index to 0, so that slot 0 is the slot the write after  *)
(* it overwrites.                                                          *)
(***************************************************************************)
C3_Capacity ==
    /\ (/\ is_initialized
        /\ hdr.total_writes = U32(BUFFER_STAGES - 1)
        /\ hdr.total_reads = U32(0))
       => (/\ is_full
           /\ has_data
           /\ hdr.write_index = BUFFER_STAGES - 1
           /\ hdr.read_index = 0)
    /\ (/\ call.op = "write_slot"
        /\ PreOpen
        /\ ~call.null
        /\ call.size <= SLOT_SIZE
        /\ PreHdr.total_writes = U32(BUFFER_STAGES - 1)
        /\ PreHdr.total_reads = U32(0))
       => (/\ call.ret = "true"
           /\ hdr.write_index = 0
           /\ hdr.total_writes = U32(BUFFER_STAGES))
    /\ (/\ call.op = "write_slot"
        /\ call.ret = "true"
        /\ PreHdr.total_writes = U32(BUFFER_STAGES)
        /\ PreHdr.total_reads = U32(0))
       => (/\ PreHdr.write_index = 0
           /\ slots[0] = Padded(call.data, call.size)
           /\ slots[0] # PreSlots[0])

\* the tenth write into a fresh buffer has returned
C3_Witness ==
    /\ call.op = "write_slot"
    /\ call.ret = "true"
    /\ PreHdr.total_writes = U32(BUFFER_STAGES - 1)
    /\ PreHdr.total_reads = U32(0)
    /\ FullRing(PreHdr)
    /\ hdr.write_index = 0

(***************************************************************************)
(* C4.  No backpressure: on an open buffer write_slot with data that is    *)
(* not null and a size of at most SLOT_SIZE returns true, whatever the     *)
(* state of the ring.                                                      *)
(***************************************************************************)
C4_NoBackpressure ==
    (/\ call.op = "write_slot"
     /\ PreOpen
     /\ ~call.null
     /\ call.size <= SLOT_SIZE)
    => call.ret = "true"

\* a write into a full ring has returned true
C4_Witness ==
    /\ call.op = "write_slot"
    /\ call.ret = "true"
    /\ FullRing(PreHdr)

(***************************************************************************)
(* C5.  Round trip: a successful write_slot(p, n) into an empty open       *)
(* buffer, followed at once by read_slot(out, max_size) with out not null, *)
(* makes read_slot return true, report min(max_size, SLOT_SIZE) bytes and  *)
(* leave in out the first min(max_size, SLOT_SIZE) bytes of p padded with  *)
(* zeros.                                                                  *)
(***************************************************************************)
C5_RoundTrip ==
    (/\ call.op = "read_slot"
     /\ ~call.null
     /\ prev.op = "write_slot"
     /\ prev.ret = "true"
     /\ prev.empty)
    => (/\ call.ret = "true"
        /\ call.want => call.bytes_read = Min(call.size, SLOT_SIZE)
        /\ Len(call.out) = call.size
        /\ \A i \in 1..Min(call.size, SLOT_SIZE) :
              call.out[i] = IF i <= prev.size THEN prev.data[i] ELSE 0)

\* a record shorter than a slot came back through a buffer longer than a slot
C5_Witness ==
    /\ call.op = "read_slot"
    /\ call.ret = "true"
    /\ prev.op = "write_slot"
    /\ prev.ret = "true"
    /\ prev.empty
    /\ prev.size > 0
    /\ prev.size < SLOT_SIZE
    /\ call.size > SLOT_SIZE
    /\ call.bytes_read = SLOT_SIZE

(***************************************************************************)
(* C6.  Peek idempotence: peek_slot changes no byte of the file (indices,  *)
(* counters, slots), and a peek_slot that follows a peek_slot with the     *)
(* same arguments returns the same result, the same bytes and the same     *)
(* byte count.                                                             *)
(***************************************************************************)
C6_PeekIdempotent ==
    [][call'.op = "peek_slot"
        => /\ File' = File
           /\ (/\ call.op = "peek_slot"
               /\ call'.null = call.null
               /\ call'.size = call.size
               /\ call'.want = call.want)
              => (/\ call'.ret = call.ret
                  /\ call'.out = call.out
                  /\ call'.bytes_read = call.bytes_read)]_vars

\* a successful peek_slot after a successful peek_slot
C6_Witness ==
    /\ call.op = "peek_slot"
    /\ call.ret = "true"
    /\ prev.op = "peek_slot"
    /\ prev.ret = "true"
    /\ File = call.pre.file

(***************************************************************************)
(* C7.  Emptiness: on an open buffer has_data() is false exactly when      *)
(* read_index = write_index.                                               *)
(***************************************************************************)
C7_Emptiness ==
    /\ is_initialized => (~has_data <=> hdr.read_index = hdr.write_index)
    /\ (call.op = "has_data" /\ PreOpen)
       => (call.ret = "false" <=> hdr.read_index = hdr.write_index)

\* has_data() returned false although the counters differ
C7_Witness ==
    /\ call.op = "has_data"
    /\ PreOpen
    /\ call.ret = "false"
    /\ hdr.total_writes # hdr.total_reads

(***************************************************************************)
(* C8.  Counters: on an open buffer total_writes grows by one on every     *)
(* successful write_slot and every advance_write_pointer, total_reads by   *)
(* one on every successful read_slot and every advance_read_pointer that   *)
(* finds data, and each of these leaves the other counter alone; no        *)
(* counter changes on peek_slot, on a failed write_slot or read_slot, on   *)
(* has_data, is_full or get_stats.                                         *)
(***************************************************************************)
C8_Counters ==
    /\ (call.op = "write_slot" /\ call.ret = "true")
       => (/\ Succ32(PreHdr.total_writes, hdr.total_writes)
           /\ hdr.total_reads = PreHdr.total_reads)
    /\ (call.op = "advance_write_pointer" /\ PreOpen)
       => (/\ Succ32(PreHdr.total_writes, hdr.total_writes)
           /\ hdr.total_reads = PreHdr.total_reads)
    /\ (call.op = "read_slot" /\ call.ret = "true")
       => (/\ Succ32(PreHdr.total_reads, hdr.total_reads)
           /\ hdr.total_writes = PreHdr.total_writes)
    /\ (/\ call.op = "advance_read_pointer"
        /\ PreOpen
        /\ PreHdr.read_index # PreHdr.write_index)
       => (/\ Succ32(PreHdr.total_reads, hdr.total_reads)
           /\ hdr.total_writes = PreHdr.total_writes)
    /\ (\/ call.op \in {"peek_slot", "has_data", "is_full", "get_stats"}
        \/ (call.op \in {"write_slot", "read_slot"} /\ call.ret = "false")
        \/ (/\ call.op = "advance_read_pointer"
            /\ PreHdr.read_index = PreHdr.write_index))
       => (/\ hdr.total_writes = PreHdr.total_writes
           /\ hdr.total_reads = PreHdr.total_reads)

\* advance_write_pointer has counted a write on an open buffer
C8_Witness ==
    /\ call.op = "advance_write_pointer"
    /\ PreOpen
    /\ hdr.total_writes = U32(1)
    /\ PreHdr.total_writes = U32(0)

(***************************************************************************)
(* C9.  Fresh file: a successful create_buffer_file leaves a file of       *)
(* exactly 64 + BUFFER_STAGES * SLOT_SIZE bytes with indices and counters  *)
(* zero and the magic stamped; a successful initialize right after it, or  *)
(* of a path that did not exist, opens that state: has_data() is false.    *)
(***************************************************************************)
C9_FreshFile ==
    LET Fresh == /\ file_exists
                 /\ file_len = 64 + BUFFER_STAGES * SLOT_SIZE
                 /\ hdr.write_index = 0
                 /\ hdr.read_index = 0
                 /\ hdr.total_writes = U32(0)
                 /\ hdr.total_reads = U32(0)
                 /\ hdr.magic_number = MAGIC_NUMBER
    IN  /\ (call.op = "create_buffer_file" /\ call.ret = "true") => Fresh
        /\ (/\ call.op = "initialize"
            /\ call.ret = "true"
            /\ \/ prev.op = "create_buffer_file" /\ prev.ret = "true"
               \/ ~call.pre.file.exists)
           => (/\ Fresh
               /\ is_initialized
               /\ file_size = file_len
               /\ ~has_data)

\* initialize has created and opened a file that did not exist
C9_Witness ==
    /\ call.op = "initialize"
    /\ call.ret = "true"
    /\ ~call.pre.file.exists
    /\ file_exists
    /\ is_initialized

(***************************************************************************)
(* C10.  Persistence: cleanup changes no byte of the file and leaves the   *)
(* instance as the constructor does; a successful initialize of an         *)
(* existing file with the right magic, right after cleanup or at any other *)
(* time, leaves the header and the slots as they were.                     *)
(***************************************************************************)
C10_Persistence ==
    /\ call.op = "cleanup" => (File = call.pre.file /\ Inst = NoPre.inst)
    /\ (/\ call.op = "initialize"
        /\ call.ret = "true"
        /\ call.pre.file.exists
        /\ PreHdr.magic_number = MAGIC_NUMBER)
       => (/\ hdr = PreHdr
           /\ slots = PreSlots)

\* a file with records and reads was closed and opened again
C10_Witness ==
    /\ call.op = "initialize"
    /\ call.ret = "true"
    /\ prev.op = "cleanup"
    /\ hdr.magic_number = MAGIC_NUMBER
    /\ hdr.total_writes = U32(3)
    /\ hdr.total_reads = U32(1)
    /\ hdr = PreHdr
    /\ slots = PreSlots

(***************************************************************************)
(* C11.  create is destructive: a successful create_buffer_file on a path  *)
(* that exists, whatever the file holds, leaves the canonical empty file:  *)
(* 64 + BUFFER_STAGES * SLOT_SIZE bytes, indices and counters zero, the    *)
(* magic stamped and every slot byte zero.  The code opens the file        *)
(* without O_TRUNC and writes the 64 bytes of the header only, so the slot *)
(* bytes of the old file stay: the property fails.                         *)
(***************************************************************************)
C11_CreateDestructive ==
    (/\ call.op = "create_buffer_file"
     /\ call.ret = "true"
     /\ call.pre.file.exists)
    => (/\ file_exists
        /\ file_len = 64 + BUFFER_STAGES * SLOT_SIZE
        /\ hdr = [write_index |-> 0, read_index |-> 0,
                  total_writes |-> U32(0), total_reads |-> U32(0),
                  magic_number |-> MAGIC_NUMBER]
        /\ \A s \in 0..(BUFFER_STAGES - 1) : \A i \in 1..SLOT_SIZE : slots[s][i] = 0)

(***************************************************************************)
(* C12.  Double open: initialize on an instance that is open returns       *)
(* false, whatever becomes of the system calls it would make on the path,  *)
(* and leaves the members of the instance, the header and the slots as     *)
(* they were.                                                              *)
(***************************************************************************)
C12_DoubleOpen ==
    (call.op = "initialize" /\ PreOpen)
    => (/\ call.ret = "false"
        /\ Inst = call.pre.inst
        /\ is_initialized
        /\ File = call.pre.file)

\* initialize was refused on an open buffer that holds an unread record
C12_Witness ==
    /\ call.op = "initialize"
    /\ PreOpen
    /\ call.ret = "false"
    /\ fd # -1
    /\ mapped_memory = "mapped"
    /\ hdr.total_writes = U32(1)
    /\ hdr.read_index # hdr.write_index

(***************************************************************************)
(* C13.  Failed open: an initialize that fails on a closed instance, at    *)
(* whatever step, leaves the instance as the constructor does: no          *)
(* descriptor, no mapping, no pointer and no other member set.  The code   *)
(* stores the size of the file in file_size after fstat and leaves it      *)
(* there when the extension or the mapping fails: the property fails.      *)
(***************************************************************************)
C13_FailedOpen ==
    (/\ call.op = "initialize"
     /\ ~PreOpen
     /\ call.ret = "false")
    => (/\ ~is_initialized
        /\ fd = -1
        /\ mapped_memory = "MAP_FAILED"
        /\ header = "nullptr"
        /\ buffer_data = "nullptr"
        /\ file_size = 0)

(***************************************************************************)
(* C14.  Oversized or null payload: write_slot with a size above SLOT_SIZE *)
(* or with null data returns false and changes nothing: write_index,       *)
(* read_index, both counters and every slot byte are as they were.         *)
(***************************************************************************)
C14_RejectedWrite ==
    (/\ call.op = "write_slot"
     /\ (call.null \/ call.size > SLOT_SIZE))
    => (/\ call.ret = "false"
        /\ hdr = PreHdr
        /\ slots = PreSlots
        /\ File = call.pre.file)

\* an oversized record was refused by an open buffer whose next slot holds
\* the bytes of an earlier record
C14_Witness ==
    /\ call.op = "write_slot"
    /\ PreOpen
    /\ ~call.null
    /\ call.size > SLOT_SIZE
    /\ call.ret = "false"
    /\ slots[hdr.write_index] # ZeroSlot

(***************************************************************************)
(* C15.  Operations while closed: on an instance that is not open          *)
(* write_slot, read_slot and peek_slot return false, the two slot-pointer  *)
(* getters return null, has_data and is_full return false, and             *)
(* advance_write_pointer, advance_read_pointer, reset and get_stats do     *)
(* nothing; none of them changes a byte of the file, a member of the       *)
(* instance or a buffer of the caller.                                     *)
(***************************************************************************)
C15_ClosedOps ==
    ~PreOpen
    => /\ call.op \in {"write_slot", "read_slot", "peek_slot", "has_data", "is_full"}
          => call.ret = "false"
       /\ call.op \in {"read_slot", "peek_slot"}
          => (/\ call.bytes_read = Untouched
              /\ \A i \in 1..Len(call.out) : call.out[i] = JUNK)
       /\ call.op \in {"get_write_slot_ptr", "get_read_slot_ptr"}
          => (call.ret = "nullptr" /\ call.ptr = NullPtr)
       /\ call.op = "get_stats" => call.stats = <<>>
       /\ call.op \in {"write_slot", "read_slot", "peek_slot", "has_data", "is_full",
                       "get_write_slot_ptr", "get_read_slot_ptr", "get_stats",
                       "advance_write_pointer", "advance_read_pointer", "reset"}
          => (/\ File = call.pre.file
              /\ Inst = call.pre.inst
              /\ ~is_initialized)

\* reset() was called on a closed instance whose file holds an unread record
C15_Witness ==
    /\ call.op = "reset"
    /\ ~PreOpen
    /\ file_exists
    /\ hdr.total_writes = U32(1)
    /\ hdr.read_index # hdr.write_index
    /\ slots[0] # ZeroSlot

(***************************************************************************)
(* C16.  Lifecycle: the instance goes from closed to open by a successful  *)
(* initialize only and from open to closed by cleanup only; cleanup        *)
(* releases the mapping and the descriptor, leaves the members as the      *)
(* constructor does and changes no byte of the file; a cleanup of a closed *)
(* instance releases nothing and a cleanup after a cleanup changes         *)
(* nothing; at every moment the process holds a descriptor and a mapping,  *)
(* the ones the members name, exactly when the instance is open.           *)
(***************************************************************************)
C16_Lifecycle ==
    /\ is_initialized <=> fd # -1
    /\ is_initialized <=> mapped_memory # "MAP_FAILED"
    /\ is_initialized <=> header # "nullptr"
    /\ is_initialized <=> buffer_data # "nullptr"
    /\ open_fds = IF is_initialized THEN {fd} ELSE {}
    /\ mappings = IF is_initialized THEN {file_size} ELSE {}
    /\ (is_initialized /\ ~PreOpen) => (call.op = "initialize" /\ call.ret = "true")
    /\ (~is_initialized /\ PreOpen) => call.op = "cleanup"
    /\ (call.op = "initialize" /\ ~PreOpen) => (is_initialized <=> call.ret = "true")
    /\ call.op = "cleanup"
       => (/\ ~is_initialized
           /\ Inst = NoPre.inst
           /\ File = call.pre.file)
    /\ (call.op = "cleanup" /\ prev.op = "cleanup") => Inst = call.pre.inst

\* an instance that was open and was closed has been opened again
C16_Witness ==
    /\ call.op = "initialize"
    /\ call.ret = "true"
    /\ prev.op = "cleanup"
    /\ ~PreOpen
    /\ hdr.total_writes = U32(2)
    /\ open_fds = {fd}
    /\ mappings = {file_size}
    /\ fd # -1

(***************************************************************************)
(* C17.  Index range: on an open buffer, whatever file was opened and      *)
(* whatever operations followed, write_index and read_index are below      *)
(* BUFFER_STAGES.  initialize does not look at the indices of the file it  *)
(* maps, and the reset it calls when the magic is wrong does nothing (C1): *)
(* the property fails for a file that holds an index of BUFFER_STAGES or   *)
(* more.                                                                   *)
(***************************************************************************)
C17_IndexRange ==
    is_initialized
    => (/\ hdr.write_index \in 0..(BUFFER_STAGES - 1)
        /\ hdr.read_index \in 0..(BUFFER_STAGES - 1))

(***************************************************************************)
(* C18.  Zero padding: after a successful write_slot(data, size) the slot  *)
(* that was at write_index holds the size bytes of data followed by zeros  *)
(* up to SLOT_SIZE, whatever it held before.                               *)
(***************************************************************************)
C18_ZeroPadding ==
    (call.op = "write_slot" /\ call.ret = "true")
    => (/\ Len(slots[PreHdr.write_index]) = SLOT_SIZE
        /\ \A i \in 1..SLOT_SIZE :
              slots[PreHdr.write_index][i]
                  = IF i <= call.size THEN call.data[i] ELSE 0)

\* a record shorter than a slot was written over a longer record of the
\* lap before
C18_Witness ==
    /\ call.op = "write_slot"
    /\ call.ret = "true"
    /\ call.size < SLOT_SIZE
    /\ PreHdr.total_writes = U32(BUFFER_STAGES)
    /\ \E i \in (call.size + 1)..SLOT_SIZE :
          /\ PreSlots[PreHdr.write_index][i] # 0
          /\ slots[PreHdr.write_index][i] = 0

(***************************************************************************)
(* C19.  Full and empty: on an open buffer is_full() is true exactly when  *)
(* (write_index + 1) mod BUFFER_STAGES = read_index; the buffer is never   *)
(* full and empty at once, is_full() implies has_data(), and at most       *)
(* BUFFER_STAGES - 1 records can be read without a write in between (a     *)
(* full buffer holds exactly that many).                                   *)
(***************************************************************************)
C19_FullEmpty ==
    /\ is_initialized
       => (/\ is_full <=> ((hdr.write_index + 1) % BUFFER_STAGES = hdr.read_index)
           /\ ~(is_full /\ hdr.write_index = hdr.read_index)
           /\ is_full => has_data
           /\ Readable(hdr) <= BUFFER_STAGES - 1
           /\ is_full => Readable(hdr) = BUFFER_STAGES - 1)
    /\ (call.op = "is_full" /\ PreOpen)
       => (call.ret = "true"
              <=> ((PreHdr.write_index + 1) % BUFFER_STAGES = PreHdr.read_index))

\* is_full() returned true on a ring whose write_index has wrapped behind
\* read_index
C19_Witness ==
    /\ call.op = "is_full"
    /\ PreOpen
    /\ call.ret = "true"
    /\ has_data
    /\ hdr.write_index < hdr.read_index
    /\ Readable(hdr) = BUFFER_STAGES - 1

(***************************************************************************)
(* C20.  Read on empty: on an open buffer with read_index = write_index    *)
(* read_slot and peek_slot return false, store 0 in *bytes_read (given an  *)
(* output buffer and a bytes_read that are not null), leave the output     *)
(* buffer as it was and change nothing in the header or the slots.         *)
(***************************************************************************)
C20_ReadOnEmpty ==
    (/\ call.op \in {"read_slot", "peek_slot"}
     /\ PreOpen
     /\ PreHdr.read_index = PreHdr.write_index)
    => (/\ call.ret = "false"
        /\ (~call.null /\ call.want) => call.bytes_read = 0
        /\ \A i \in 1..Len(call.out) : call.out[i] = JUNK
        /\ hdr = PreHdr
        /\ File = call.pre.file)

\* read_slot found nothing to read in a ring that ten writes have emptied,
\* with the bytes of an old record in the slot at read_index
C20_Witness ==
    /\ call.op = "read_slot"
    /\ PreOpen
    /\ ~call.null
    /\ call.want
    /\ call.size > 0
    /\ call.ret = "false"
    /\ call.bytes_read = 0
    /\ hdr.read_index = hdr.write_index
    /\ hdr.total_writes = U32(BUFFER_STAGES)
    /\ slots[hdr.read_index] # ZeroSlot

(***************************************************************************)
(* C21.  reset on an open buffer, whatever its state, leaves write_index,  *)
(* read_index, total_writes and total_reads zero, the magic stamped and    *)
(* every slot byte zero, which is the state of a file that was created and *)
(* opened: has_data() and is_full() are false.  The buffer stays open and  *)
(* the members of the instance are as they were.                           *)
(***************************************************************************)
C21_Reset ==
    (call.op = "reset" /\ PreOpen)
    => (/\ hdr = [write_index |-> 0, read_index |-> 0,
                  total_writes |-> U32(0), total_reads |-> U32(0),
                  magic_number |-> MAGIC_NUMBER]
        /\ \A s \in 0..(BUFFER_STAGES - 1) : \A i \in 1..SLOT_SIZE : slots[s][i] = 0
        /\ hdr = InitialHeader
        /\ ~has_data
        /\ ~is_full
        /\ is_initialized
        /\ Inst = call.pre.inst
        /\ file_len = call.pre.file.len)

\* reset() has cleared an open buffer that held unread records under a
\* wrong magic
C21_Witness ==
    /\ call.op = "reset"
    /\ PreOpen
    /\ PreHdr.magic_number # MAGIC_NUMBER
    /\ PreHdr.read_index # PreHdr.write_index
    /\ PreHdr.total_reads # U32(0)
    /\ PreSlots[1] # ZeroSlot
    /\ slots[1] = ZeroSlot
    /\ hdr.magic_number = MAGIC_NUMBER

(***************************************************************************)
(* C22.  Short file: a successful initialize of an existing file that has  *)
(* the right magic and fewer than 64 + BUFFER_STAGES * SLOT_SIZE bytes     *)
(* leaves a file of exactly that length whose new bytes are zero; the      *)
(* header and the bytes the file held are as they were.                    *)
(***************************************************************************)
C22_ShortFile ==
    (/\ call.op = "initialize"
     /\ call.ret = "true"
     /\ call.pre.file.exists
     /\ call.pre.file.len < 64 + BUFFER_STAGES * SLOT_SIZE
     /\ PreHdr.magic_number = MAGIC_NUMBER)
    => (/\ file_len = 64 + BUFFER_STAGES * SLOT_SIZE
        /\ file_size = file_len
        /\ hdr = PreHdr
        /\ slots = PreSlots
        /\ \A s \in 0..(BUFFER_STAGES - 1) :
              HEADER_SIZE + (s + 1) * SLOT_SIZE > call.pre.file.len
              => slots[s] = ZeroSlot)

\* a file of the header and one slot, with counters that are not zero, was
\* opened
C22_Witness ==
    /\ call.op = "initialize"
    /\ call.ret = "true"
    /\ call.pre.file.len = HEADER_SIZE + SLOT_SIZE
    /\ PreHdr.magic_number = MAGIC_NUMBER
    /\ hdr.total_writes = U32(65536 + 7)
    /\ hdr.total_reads = U32(3)
    /\ hdr.write_index = BUFFER_STAGES - 1
    /\ slots[0] # ZeroSlot
    /\ slots[1] = ZeroSlot
    /\ file_len = TOTAL_BUFFER_SIZE

(***************************************************************************)
(* C26.  Direct-access bookkeeping: on an open buffer                      *)
(* advance_write_pointer changes the header as a successful write_slot     *)
(* does (write_index one further modulo BUFFER_STAGES, total_writes one    *)
(* more, nothing else), whatever the state of the ring, and                *)
(* advance_read_pointer on a buffer with data changes it as a successful   *)
(* read_slot does (read_index one further, total_reads one more); neither  *)
(* changes a slot byte, and advance_read_pointer on an empty buffer        *)
(* changes nothing.                                                        *)
(***************************************************************************)
C26_DirectBookkeeping ==
    /\ (\/ call.op = "advance_write_pointer" /\ PreOpen
        \/ call.op = "write_slot" /\ call.ret = "true")
       => (/\ hdr.write_index = (PreHdr.write_index + 1) % BUFFER_STAGES
           /\ Succ32(PreHdr.total_writes, hdr.total_writes)
           /\ hdr.read_index = PreHdr.read_index
           /\ hdr.total_reads = PreHdr.total_reads
           /\ hdr.magic_number = PreHdr.magic_number)
    /\ (\/ (/\ call.op = "advance_read_pointer"
            /\ PreOpen
            /\ PreHdr.read_index # PreHdr.write_index)
        \/ call.op = "read_slot" /\ call.ret = "true")
       => (/\ hdr.read_index = (PreHdr.read_index + 1) % BUFFER_STAGES
           /\ Succ32(PreHdr.total_reads, hdr.total_reads)
           /\ hdr.write_index = PreHdr.write_index
           /\ hdr.total_writes = PreHdr.total_writes
           /\ hdr.magic_number = PreHdr.magic_number)
    /\ call.op \in {"advance_write_pointer", "advance_read_pointer"}
       => (/\ slots = PreSlots
           /\ Inst = call.pre.inst)
    /\ (/\ call.op = "advance_read_pointer"
        /\ PreHdr.read_index = PreHdr.write_index)
       => File = call.pre.file

\* advance_write_pointer was not refused by a full ring
C26_Witness ==
    /\ call.op = "advance_write_pointer"
    /\ PreOpen
    /\ FullRing(PreHdr)
    /\ hdr.write_index = PreHdr.read_index
    /\ hdr.total_writes = U32(BUFFER_STAGES)

(***************************************************************************)
(* C27.  Zero-copy round trip: get_write_slot_ptr on an open buffer        *)
(* returns the slot at write_index; bytes stored through it into an empty  *)
(* buffer, followed by advance_write_pointer, leave one unread record, in  *)
(* that slot, which is the slot at read_index and holds those bytes;       *)
(* get_read_slot_ptr returns the slot at read_index, and null exactly when *)
(* the instance is closed or read_index = write_index; advance_read_pointer*)
(* on a buffer with one unread record leaves it empty.                     *)
(***************************************************************************)
C27_ZeroCopy ==
    /\ call.op = "get_write_slot_ptr"
       => (/\ call.ret = "ptr" <=> PreOpen
           /\ call.ret = "nullptr" <=> ~PreOpen
           /\ PreOpen => call.ptr = PreHdr.write_index)
    /\ call.op = "get_read_slot_ptr"
       => (/\ call.ret = "nullptr"
                <=> (~PreOpen \/ PreHdr.read_index = PreHdr.write_index)
           /\ call.ret = "ptr" <=> call.ret # "nullptr"
           /\ call.ret = "ptr" => call.ptr = PreHdr.read_index)
    /\ call.op = "direct_store"
       => (/\ call.ptr = hdr.write_index
           /\ hdr = PreHdr
           /\ \A i \in 1..call.size : slots[call.ptr][i] = call.data[i]
           /\ \A t \in 0..(BUFFER_STAGES - 1) : t # call.ptr => slots[t] = PreSlots[t])
    /\ (/\ call.op = "advance_write_pointer"
        /\ prev.op = "direct_store"
        /\ prev.empty)
       => (/\ has_data
           /\ UnreadCount(hdr) = 1
           /\ hdr.read_index = PreHdr.write_index
           /\ \A i \in 1..prev.size : slots[hdr.read_index][i] = prev.data[i])
    /\ (/\ call.op = "advance_read_pointer"
        /\ PreOpen
        /\ UnreadCount(PreHdr) = 1)
       => ~has_data

\* bytes stored through the write pointer into an empty buffer have become
\* the unread record after advance_write_pointer
C27_Witness ==
    /\ call.op = "advance_write_pointer"
    /\ prev.op = "direct_store"
    /\ prev.empty
    /\ prev.size = SLOT_SIZE
    /\ has_data
    /\ slots[hdr.read_index] = [i \in 1..SLOT_SIZE |-> prev.data[i]]
    /\ hdr.read_index = BUFFER_STAGES - 1

(***************************************************************************)
(* C28.  Peek shows the next read: on an open buffer with data peek_slot   *)
(* with an output buffer succeeds, and a read_slot that follows it at once *)
(* with the same arguments succeeds too and returns the same bytes and the *)
(* same byte count; the peek_slot changes nothing and the read_slot        *)
(* consumes the record.                                                    *)
(***************************************************************************)
C28_PeekThenRead ==
    [][/\ (/\ call'.op = "peek_slot"
           /\ is_initialized
           /\ ~call'.null
           /\ hdr.read_index # hdr.write_index)
          => (call'.ret = "true" /\ File' = File)
       /\ (/\ call.op = "peek_slot"
           /\ call.ret = "true"
           /\ call'.op = "read_slot"
           /\ call'.null = call.null
           /\ call'.size = call.size
           /\ call'.want = call.want)
          => (/\ call'.ret = "true"
              /\ call'.out = call.out
              /\ call'.bytes_read = call.bytes_read
              /\ call.pre.file = File
              /\ hdr'.read_index = (hdr.read_index + 1) % BUFFER_STAGES
              /\ Succ32(hdr.total_reads, hdr'.total_reads))]_vars

\* a read_slot after a peek_slot has returned a record that is not the one
\* in slot 0
C28_Witness ==
    /\ call.op = "read_slot"
    /\ call.ret = "true"
    /\ prev.op = "peek_slot"
    /\ prev.ret = "true"
    /\ call.size = SLOT_SIZE
    /\ call.bytes_read = SLOT_SIZE
    /\ PreHdr.read_index = 2
    /\ call.out # PreSlots[0]
    /\ call.out = PreSlots[2]

(***************************************************************************)
(* C29.  Draining terminates: with no write in between, every read_slot of *)
(* the loop 'while has_data() read_slot' succeeds and leaves one unread    *)
(* record less, and from a buffer with k unread records, k at most         *)
(* BUFFER_STAGES - 1, the loop reaches has_data() false after exactly k    *)
(* reads.                                                                  *)
(***************************************************************************)
C29_DrainTerminates ==
    /\ [](call.op = "read_slot"
            => (/\ call.ret = "true"
                /\ UnreadCount(PreHdr) <= BUFFER_STAGES - 1
                /\ UnreadCount(hdr) = UnreadCount(PreHdr) - 1
                /\ hdr.write_index = PreHdr.write_index))
    /\ \A k \in 0..(BUFFER_STAGES - 1) : \A t \in 0..(BUFFER_STAGES - 1) :
          (/\ (hdr.write_index - hdr.read_index + BUFFER_STAGES) % BUFFER_STAGES = k
           /\ hdr.total_reads = U32(t))
          => <>[](~has_data /\ hdr.total_reads = U32(t + k))

\* the loop has emptied a ring that was full
C29_Witness ==
    /\ call.op = "read_slot"
    /\ call.ret = "true"
    /\ ~has_data
    /\ hdr.total_reads = U32(BUFFER_STAGES - 1)
    /\ hdr.total_writes = U32(BUFFER_STAGES - 1)


(***************************************************************************)
(* C23: two writers are not made safe.  When two processes that map the    *)
(* same file interleave their write_slot calls access by access, both      *)
(* payloads can be copied into the same slot while write_index and         *)
(* total_writes advance by one: a write that returned true is lost.  What  *)
(* the code does keep: once all calls have returned, write_index and       *)
(* total_writes have advanced by at least one and by no more than the      *)
(* number of calls that returned true, and every byte of every slot is 0   *)
(* or a byte that one of the calls copied there.                           *)
(***************************************************************************)
WritersIdle == \A p \in Procs : proc[p].pc = "idle"

WritesReturned == proc["A"].n + proc["B"].n

IsPayload(slot) ==
    \E p \in Procs : \E k \in 1..MaxRaceCalls :
        slot = memcpy(ZeroSlot, Record(Mark(p) + k), SLOT_SIZE)

PayloadBytes == {Mark(p) + k : p \in Procs, k \in 1..MaxRaceCalls}

C23_TwoWriters ==
    (WritersIdle /\ WritesReturned >= 1) =>
        /\ hdr.write_index \in 1..WritesReturned
        /\ hdr.total_writes[1] = 0
        /\ hdr.total_writes[2] \in 1..WritesReturned
        /\ \A s \in 0..(BUFFER_STAGES - 1) : \A i \in 1..SLOT_SIZE :
              slots[s][i] \in PayloadBytes \cup {0}

C23_Witness ==
    /\ \A p \in Procs :
          /\ proc[p].pc = "idle"
          /\ proc[p].last = "write_slot"
          /\ proc[p].ret = "true"
          /\ proc[p].calls = 1
          /\ proc[p].ptr = 0
    /\ hdr.write_index = 1
    /\ hdr.total_writes = U32(1)
    /\ IsPayload(slots[0])
    /\ slots[1] = ZeroSlot


(***************************************************************************)
(* C24: a writer racing a reader at wraparound is not made safe.  With one *)
(* writer and one reader on the same file, a writer that keeps writing     *)
(* while the ring is full clears or overwrites the slot at read_index      *)
(* while read_slot or peek_slot copies it, and the read returns true with  *)
(* bytes that equal no single written record.  What the code does keep:    *)
(* every byte returned is 0 or a byte of a written record, and as long as  *)
(* the writer has begun no write into a full ring each successful read     *)
(* returns the whole record that is next in order.                         *)
(***************************************************************************)
\* the slot that holds the k-th record of the producer
WholeRecord(k) == StoreSlot(ZeroSlot, Record(k), SizeOf(k))

RecordsWritten == 1..(BUFFER_STAGES - 1 + MaxRaceCalls)

ReaderReturned ==
    /\ proc["B"].pc = "idle"
    /\ proc["B"].last \in {"read_slot", "peek_slot"}
    /\ proc["B"].ret = "true"

WritePcs == {"write_memset", "write_memcpy", "write_load_index",
             "write_store_index", "write_load_count", "write_store_count",
             "write_msync"}

\* the writes the producer has begun
WritesBegun == proc["A"].n + (IF proc["A"].pc \in WritePcs THEN 1 ELSE 0)

NoOverflow == WritesBegun <= BUFFER_STAGES - 1

C24_WraparoundRace ==
    ReaderReturned =>
        /\ proc["B"].bytes_read = SLOT_SIZE
        /\ \A i \in 1..SLOT_SIZE : proc["B"].out[i] \in RecordsWritten \cup {0}
        /\ NoOverflow =>
              proc["B"].out = WholeRecord(IF proc["B"].last = "read_slot"
                                          THEN proc["B"].got
                                          ELSE proc["B"].got + 1)

C24_Witness ==
    /\ ReaderReturned
    /\ proc["B"].last = "read_slot"
    /\ proc["B"].ptr = 0
    /\ proc["A"].ptr = 0
    /\ proc["A"].n >= BUFFER_STAGES
    /\ \A k \in RecordsWritten : proc["B"].out # WholeRecord(k)

(***************************************************************************)
(* C25: shared visibility.  With a producer and a consumer that have the   *)
(* same file open, what one stores the other reads: after the producer's   *)
(* write_slot has returned and while the consumer has read fewer records   *)
(* than were written, the consumer's has_data() is true and its read_slot  *)
(* returns the record that is next in order; after the consumer's          *)
(* read_slot has returned, the producer's statistics and is_full() are     *)
(* those of the advanced read_index.                                       *)
(***************************************************************************)
Idle(p) == proc[p].pc = "idle"

Calls(p, op) ==
    /\ Idle(p)
    /\ proc'[p].calls = proc[p].calls + 1
    /\ proc'[p].last = op
    /\ proc'[p].pc = "idle"

WriteReturned ==
    /\ Idle("A")
    /\ proc["A"].last = "write_slot"
    /\ proc["A"].ret = "true"
    /\ proc["B"].got < proc["A"].n

C25_SharedVisibility ==
    [][/\ (WriteReturned /\ Calls("B", "has_data")) => proc'["B"].ret = "true"
       /\ (WriteReturned /\ Idle("B") /\ proc'["B"].calls = proc["B"].calls + 1
              /\ proc'["B"].last # "has_data")
            => proc'["B"].pc = "read_slot" \/ proc'["B"].pc = "peek_slot"
       /\ (proc["B"].pc = "read_msync" /\ Idle("A") /\ proc'["B"].pc = "idle")
            => proc'["B"].out = WholeRecord(proc'["B"].got)
       /\ (Idle("B") /\ Calls("A", "is_full"))
            => (proc'["A"].ret = "true") =
                   (NextIndex(proc["A"].n % BUFFER_STAGES)
                        = proc["B"].got % BUFFER_STAGES)
       /\ (Idle("B") /\ Idle("A") /\ proc'["A"].pc = "get_stats")
            => proc'["A"].stats = <<proc["A"].n % BUFFER_STAGES,
                                    proc["B"].got % BUFFER_STAGES>>
       /\ (Idle("B") /\ proc["A"].pc = "get_stats" /\ proc'["A"].pc = "idle")
            => /\ proc'["A"].stats[3] = U32(proc["A"].n)
               /\ proc'["A"].stats[4] = U32(proc["B"].got)
      ]_vars


(***************************************************************************)
(* C30: durability of mutations.  Every successful write_slot, read_slot,  *)
(* advance_write_pointer, advance_read_pointer and reset ends with a flush *)
(* such that, when the process crashes right after the call has returned   *)
(* and the file is opened again, the file is in the state the call left:   *)
(* the indices, the counters and, for write_slot, the payload in the       *)
(* written slot.                                                           *)
(***************************************************************************)
C30_Durability ==
    [][(proc["A"].last # "crash" /\ proc'["A"].last = "crash")
           => (hdr' = hdr /\ slots' = slots)]_vars


(***************************************************************************)
(* C31: counter wrap.  total_writes and total_reads are incremented modulo *)
(* 2^32.  A write or a read that takes its counter from 2^32 - 1 to 0      *)
(* succeeds, and the counters have no part in the indices, in has_data(),  *)
(* in is_full() or in the slot that is addressed: each is what the indices *)
(* on entry give, whatever the counters are.                               *)
(***************************************************************************)
MaxU32 == <<65535, 65535>>

C31_CounterWrap ==
    /\ (call.op \in {"write_slot", "advance_write_pointer"} /\ call.ret # "false")
         => /\ Succ32(PreHdr.total_writes, hdr.total_writes)
            /\ PreHdr.total_writes = MaxU32 => hdr.total_writes = U32(0)
            /\ hdr.write_index = NextIndex(PreHdr.write_index)
            /\ hdr.read_index = PreHdr.read_index
            /\ hdr.total_reads = PreHdr.total_reads
            /\ \A s \in 0..(BUFFER_STAGES - 1) :
                  slots[s] = IF s = PreHdr.write_index /\ call.op = "write_slot"
                             THEN Padded(call.data, call.size)
                             ELSE PreSlots[s]
    /\ call.op = "write_slot" => call.ret = "true"
    /\ call.op = "read_slot"
         => /\ call.ret = Bool(PreHdr.read_index # PreHdr.write_index)
            /\ call.ret = "true"
                 => /\ Succ32(PreHdr.total_reads, hdr.total_reads)
                    /\ PreHdr.total_reads = MaxU32 => hdr.total_reads = U32(0)
                    /\ hdr.read_index = NextIndex(PreHdr.read_index)
                    /\ hdr.write_index = PreHdr.write_index
                    /\ call.out = PreSlots[PreHdr.read_index]
    /\ call.op = "advance_read_pointer"
         => IF PreHdr.read_index # PreHdr.write_index
            THEN /\ Succ32(PreHdr.total_reads, hdr.total_reads)
                 /\ hdr.read_index = NextIndex(PreHdr.read_index)
            ELSE hdr = PreHdr
    /\ call.op = "has_data"
         => call.ret = Bool(PreHdr.read_index # PreHdr.write_index)
    /\ call.op = "is_full"
         => call.ret = Bool(NextIndex(PreHdr.write_index) = PreHdr.read_index)
    /\ call.op = "get_write_slot_ptr" => call.ptr = PreHdr.write_index
    /\ (call.op = "get_read_slot_ptr" /\ call.ret = "ptr")
         => call.ptr = PreHdr.read_index

C31_Witness ==
    /\ call.op = "read_slot"
    /\ call.ret = "true"
    /\ PreHdr.total_reads = MaxU32
    /\ hdr.total_reads = U32(0)
    /\ hdr.total_writes = U32(1)
    /\ hdr.read_index = Index32(NearWrap)
    /\ call.out = Padded(Record(65536), SizeOf(65536))


(***************************************************************************)
(* C32: the inspection tool.  Given a readable buffer file (the header and *)
(* the 10 slots are there), the tool prints the header and then dumps all  *)
(* 10 slots, whether the magic is 0xBEEFCAFE or not (a mismatch gives a    *)
(* warning only); of each slot it dumps the first min(requested,           *)
(* SLOT_SIZE) bytes, or the default number when none is requested; and it  *)
(* never modifies the file.                                                *)
(***************************************************************************)
C32_InspectionTool ==
    /\ [](( /\ Tool.pc = "exit"
            /\ file_exists
            /\ file_len >= TOTAL_BUFFER_SIZE)
           => /\ Tool.status = 0
              /\ Tool.printed
              /\ Tool.header = hdr
              /\ Tool.warned = (hdr.magic_number # MAGIC_NUMBER)
              /\ Tool.bytes_to_dump = IF Tool.request = NoRequest
                                      THEN DefaultBytesToDump
                                      ELSE Min(Tool.request, SLOT_SIZE)
              /\ Len(Tool.dumped) = BUFFER_STAGES
              /\ \A s \in 0..(BUFFER_STAGES - 1) :
                    Tool.dumped[s + 1] = SubSeq(slots[s], 1, Tool.bytes_to_dump))
    /\ [][UNCHANGED fileVars]_vars

C32_Witness ==
    /\ Tool.pc = "exit"
    /\ file_len = TOTAL_BUFFER_SIZE
    /\ hdr.magic_number = U32(0)
    /\ Tool.warned
    /\ Tool.request = SLOT_SIZE + 1
    /\ Len(Tool.dumped) = BUFFER_STAGES
    /\ Tool.dumped[3] = Padded(Record(3), SizeOf(3))
    /\ Tool.dumped[2] = Padded(Record(2), SizeOf(2))


(***************************************************************************)
(* C33: overflow empties the ring.  When is_full() holds, one more         *)
(* write_slot or advance_write_pointer makes write_index equal read_index; *)
(* write_slot stores into the one unused slot.  Right afterwards           *)
(* has_data() is false, is_full() is false and read_slot fails, although   *)
(* total_writes - total_reads = 10: the 9 unread records are unreadable.   *)
(* As stated this fails where the ring was full after an earlier overflow: *)
(* the difference of the counters is then above 10.                        *)
(***************************************************************************)
Overflowed ==
    /\ call.op \in {"write_slot", "advance_write_pointer"}
    /\ PreOpen
    /\ FullRing(PreHdr)

\* total_writes - total_reads, both below 2^16
Backlog(h) == h.total_writes[2] - h.total_reads[2]

OverflowEmpties ==
    /\ Overflowed
         => /\ call.ret # "false"
            /\ UnreadCount(PreHdr) = BUFFER_STAGES - 1
            /\ hdr.write_index = hdr.read_index
            /\ hdr.read_index = PreHdr.read_index
            /\ ~has_data
            /\ ~is_full
            /\ Readable(hdr) = 0
            /\ call.op = "write_slot"
                 => /\ PreHdr.write_index
                          = (PreHdr.read_index + BUFFER_STAGES - 1) % BUFFER_STAGES
                    /\ slots = [PreSlots EXCEPT ![PreHdr.write_index] =
                                   Padded(call.data, call.size)]
            /\ call.op = "advance_write_pointer" => slots = PreSlots
    /\ (call.op = "read_slot" /\ PreHdr.read_index = PreHdr.write_index)
         => /\ call.ret = "false"
            /\ call.bytes_read = 0
            /\ hdr = PreHdr

C33_OverflowEmpties ==
    /\ OverflowEmpties
    /\ Overflowed => Backlog(hdr) = BUFFER_STAGES

(***************************************************************************)
(* C33, amended: as above, and total_writes - total_reads has grown by one *)
(* and is at least 10; it is 10 where it was 9 before, that is where no    *)
(* write has overflowed since the buffer was fresh.                        *)
(***************************************************************************)
C33_OverflowEmptiesAmended ==
    /\ OverflowEmpties
    /\ Overflowed
         => /\ Backlog(hdr) = Backlog(PreHdr) + 1
            /\ Backlog(hdr) >= BUFFER_STAGES
            /\ Backlog(PreHdr) = BUFFER_STAGES - 1
                 => Backlog(hdr) = BUFFER_STAGES

C33_Witness ==
    /\ call.op = "read_slot"
    /\ call.ret = "false"
    /\ prev.op = "write_slot"
    /\ hdr.total_writes = U32(BUFFER_STAGES)
    /\ hdr.total_reads = U32(0)
    /\ hdr.write_index = 0
    /\ hdr.read_index = 0
    /\ \A s \in 0..(BUFFER_STAGES - 1) : slots[s] = Padded(Record(s + 1), SizeOf(s + 1))


(***************************************************************************)
(* C34: FIFO without overflow.  From an empty open buffer, in any sequence *)
(* of write_slot and read_slot calls in which no write is made while       *)
(* is_full() holds, the k-th successful read_slot returns the k-th written *)
(* payload padded with zeros, so that no record is lost, doubled or out of *)
(* order, and read_slot fails exactly when every written record has been   *)
(* read.                                                                   *)
(***************************************************************************)
C34_Fifo ==
    /\ call.op = "write_slot" => call.ret = "true"
    /\ call.op = "read_slot"
         => /\ (call.ret = "false") = (PreHdr.total_reads = PreHdr.total_writes)
            /\ call.ret = "true"
                 => /\ call.bytes_read = SLOT_SIZE
                    /\ call.out = Padded(Record(hdr.total_reads[2]),
                                         SizeOf(hdr.total_reads[2]))
                    /\ Succ32(PreHdr.total_reads, hdr.total_reads)
    /\ hdr.total_reads[2] <= hdr.total_writes[2]
    /\ hdr.total_writes[2] - hdr.total_reads[2] = UnreadCount(hdr)
    /\ \A k \in 1..UnreadCount(hdr) :
          Unread(hdr, slots)[k] = Padded(Record(hdr.total_reads[2] + k),
                                         SizeOf(hdr.total_reads[2] + k))

C34_Witness ==
    /\ call.op = "read_slot"
    /\ call.ret = "true"
    /\ PreHdr.read_index = 0
    /\ hdr.total_reads = U32(BUFFER_STAGES + 1)
    /\ hdr.total_writes = U32(BUFFER_STAGES + 1)
    /\ call.out = Padded(Record(BUFFER_STAGES + 1), SizeOf(BUFFER_STAGES + 1))


(***************************************************************************)
(* C35: guarded single producer and single consumer are race-free.  With   *)
(* one producer and one consumer on the same file, interleaved access by   *)
(* access, and a producer that calls write_slot only when is_full() has    *)
(* returned false: the slot that is written is never the slot that is      *)
(* read, no write is begun with 9 records unread, every successful         *)
(* read_slot returns one whole written payload, the next in order, and     *)
(* read_slot fails only when every record whose write has returned was     *)
(* read.                                                                   *)
(***************************************************************************)
Writing == proc["A"].pc \in {"write_memset", "write_memcpy"}

Copying == proc["B"].pc = "read_slot"

\* the reads that have advanced read_index
ReadsDone ==
    proc["B"].got + (IF proc["B"].pc \in {"read_load_count", "read_store_count",
                                          "read_msync"}
                     THEN 1 ELSE 0)

C35_GuardedSpsc ==
    /\ []( /\ (Writing /\ Copying) => proc["A"].ptr # proc["B"].ptr
           /\ WritesBegun - ReadsDone <= BUFFER_STAGES - 1
           /\ (ReaderReturned /\ proc["B"].last = "read_slot")
                => /\ proc["B"].bytes_read = SLOT_SIZE
                   /\ proc["B"].out = WholeRecord(proc["B"].got))
    /\ [][(Calls("B", "read_slot") /\ proc'["B"].ret = "false")
             => proc["A"].n <= proc["B"].got]_vars

C35_Witness ==
    /\ Writing
    /\ Copying
    /\ proc["A"].ptr = BUFFER_STAGES - 1
    /\ proc["A"].pc = "write_memcpy"
    /\ proc["B"].ptr = 1
    /\ proc["B"].got = 1
    /\ proc["B"].i = SLOT_SIZE
    /\ proc["B"].out[1] = 2
    /\ hdr.write_index = BUFFER_STAGES - 1
    /\ hdr.read_index = 1


(***************************************************************************)
(* C36: field ownership.  write_slot and advance_write_pointer never       *)
(* modify read_index or total_reads, and write_slot changes no slot other  *)
(* than the one at write_index; read_slot and advance_read_pointer never   *)
(* modify write_index, total_writes or a byte of a slot; peek_slot,        *)
(* has_data, is_full, get_stats and the two slot-pointer getters modify    *)
(* nothing; and none of these operations changes the magic, the length of  *)
(* the file or a member of the instance.                                   *)
(***************************************************************************)
ProducerOps == {"write_slot", "advance_write_pointer"}

ConsumerOps == {"read_slot", "advance_read_pointer"}

ObserverOps == {"peek_slot", "has_data", "is_full", "get_stats",
                "get_write_slot_ptr", "get_read_slot_ptr"}

C36_FieldOwnership ==
    /\ call.op \in ProducerOps
         => /\ hdr.read_index = PreHdr.read_index
            /\ hdr.total_reads = PreHdr.total_reads
            /\ \A s \in 0..(BUFFER_STAGES - 1) :
                  (s # PreHdr.write_index \/ call.op = "advance_write_pointer")
                      => slots[s] = PreSlots[s]
    /\ call.op \in ConsumerOps
         => /\ hdr.write_index = PreHdr.write_index
            /\ hdr.total_writes = PreHdr.total_writes
            /\ slots = PreSlots
    /\ call.op \in ObserverOps => File = call.pre.file
    /\ call.op \in ProducerOps \cup ConsumerOps \cup ObserverOps
         => /\ hdr.magic_number = PreHdr.magic_number
            /\ file_exists = call.pre.file.exists
            /\ file_len = call.pre.file.len
            /\ Inst = call.pre.inst

C36_Witness ==
    /\ call.op = "write_slot"
    /\ call.ret = "true"
    /\ PreHdr.write_index = 2
    /\ hdr.read_index = 1
    /\ hdr.total_reads = U32(1)
    /\ slots[0] = Padded(Record(1), SizeOf(1))
    /\ slots[1] = Padded(Record(2), SizeOf(2))
    /\ slots[2] = Padded(Record(3), SizeOf(3))


(***************************************************************************)
(* C37: index and counter congruence.  From a fresh (created or reset)     *)
(* buffer, and as long as no counter has wrapped at 2^32, every reachable  *)
(* state has write_index = total_writes mod 10 and read_index =            *)
(* total_reads mod 10, close and reopen included.                          *)
(***************************************************************************)
C37_Congruence ==
    /\ hdr.write_index = Index32(hdr.total_writes)
    /\ hdr.read_index = Index32(hdr.total_reads)

C37_Witness ==
    /\ call.op = "initialize"
    /\ call.ret = "true"
    /\ call.pre.file.exists
    /\ hdr.total_writes = U32(BUFFER_STAGES + 1)
    /\ hdr.write_index = 1
    /\ hdr.total_reads = U32(1)
    /\ hdr.read_index = 1

(***************************************************************************)
(* C38: reads never exceed writes.  From a fresh (created or reset) buffer *)
(* with a single handle and no counter wrap, every reachable state has     *)
(* total_reads <= total_writes, and the number of readable records,        *)
(* (write_index - read_index) mod 10, is at most total_writes -            *)
(* total_reads.                                                            *)
(***************************************************************************)
Leq32(x, y) == x[1] < y[1] \/ (x[1] = y[1] /\ x[2] <= y[2])

\* y - x for x <= y less than 2^16 apart
Minus32(y, x) == (y[1] - x[1]) * 65536 + (y[2] - x[2])

C38_ReadsWithinWrites ==
    /\ Leq32(hdr.total_reads, hdr.total_writes)
    /\ UnreadCount(hdr) <= Minus32(hdr.total_writes, hdr.total_reads)
    /\ Readable(hdr) <= Minus32(hdr.total_writes, hdr.total_reads)

C38_Witness ==
    /\ call.op = "read_slot"
    /\ call.ret = "true"
    /\ hdr.total_writes = U32(BUFFER_STAGES + 1)
    /\ hdr.total_reads = U32(1)
    /\ UnreadCount(hdr) = 0
    /\ UnreadCount(PreHdr) = 1

====
